---- MODULE Spec2Model ----
(***************************************************************************)
(* VeriFund: the QuadraticVoting contract (commit-reveal voting rounds)    *)
(* and the MilestoneFunding contract (milestone escrow), as state machines *)
(* over contract storage.  One action per external function; a reverting   *)
(* call leaves the state unchanged; its error is the value of <name>Err.  *)
(***************************************************************************)
EXTENDS Integers, Sequences, FiniteSets, TLC

(***************************************************************************)
(* Bounds of the model.                                                    *)
(***************************************************************************)
MaxTime == 4          \* the clock advances in steps of one second up to MaxTime
MaxRounds == 2        \* voting rounds that SpecRounds may start
MaxDuration == 2      \* durations passed to startVotingRound: 0..MaxDuration
MaxProofLen == 1      \* length of the Merkle proofs callers supply
MaxEscrow == 150      \* fundProject stops when the escrow would hold more
MaxSqrtInput == 300   \* _sqrt is stepped through for every x in 0..MaxSqrtInput

(***************************************************************************)
(* Program constants.                                                      *)
(***************************************************************************)
CREDITS_PER_ROUND == 100
MAX_VOTES_PER_PROPOSAL == 10
\* The code scales by 1e18; the scale is cut so that voteCount * SCALE stays
\* inside TLC's integers.  Only _sqrt(voteCount * SCALE) depends on it.
SCALE == 100000000
AUTO_RELEASE_DELAY == 604800        \* 7 days
MIN_REVIEWERS == 2
APPROVAL_THRESHOLD == 66
platformFeeRate == 200
\* The code requires 1000e18 base units of the stake token; stakes are counted in
\* whole tokens here.
REVIEWER_STAKE_REQUIRED == 1000

ZeroAddress == 0
Admin == 1
Addresses == {1, 2, 3}      \* callers: the administrator and two others
RoundIds == 0..MaxRounds
Proposals == {1, 2}
Nonces == {1, 2}
VoteCounts == 0..(MAX_VOTES_PER_PROPOSAL + 1)
Durations == 0..MaxDuration
Treasury == 9               \* the treasury address given to initialize
ProjectIds == {0, 1, 2}     \* ids start at 1; project 0 never exists
MilestoneIds == {0, 1, 2}   \* the projects have two milestones; index 2 is beyond them

VARIABLES
    now,                  \* block.timestamp of the transaction being applied
    \* QuadraticVoting storage
    adminRole,            \* holders of ADMIN_ROLE
    paused,
    currentRoundId,
    votingRounds,
    votes,
    results,
    voterReputationScore,
    committed,            \* <<round, voter>> of every successful commitVote
    \* MilestoneFunding storage
    nextProjectId,
    projects,
    reviewerStakes,
    reviewerRole,         \* holders of REVIEWER_ROLE
    reviewerVotes,
    \* token balances
    escrow,               \* funding tokens held by the MilestoneFunding contract
    received,             \* funding tokens the contract has paid to each holder
    stakeHeld,            \* stake tokens held by the contract, in whole tokens
    \* history of the funding contract
    releaseLog,           \* one entry per successful releaseMilestoneFunds, in order
    approvals,            \* <<project, milestone, reviewer>> of every approving review
    deposited,            \* per project, the funding tokens received by successful fundProject calls
    \* calls of the funding contract
    _status,              \* ReentrancyGuard: NOT_ENTERED or ENTERED
    inFlight,             \* the call suspended in a call to a token contract, or NoCall
    reverted,             \* <<function, project, milestone>> of every call reverted by its token call
    roundLog,             \* the round ids allocated by startVotingRound, in order
    \* history of the voting contract
    revealedBy,           \* <<round, voter, proposalId, voteCount, nonce>> of every successful revealVote
    finalizeLog,          \* one entry per successful finalizeRound, in order (event RoundFinalized)
    \* one call of _sqrt, statement by statement
    sqrtX,                \* the argument x
    sqrtY,                \* the local y
    sqrtZ,                \* the local z
    sqrtPc                \* "entry", "loop" or "return"

qvStorage == <<adminRole, paused, currentRoundId, votingRounds, votes, results,
               voterReputationScore>>
qvHistory == <<committed, revealedBy, roundLog, finalizeLog>>
sqrtLocals == <<sqrtX, sqrtY, sqrtZ, sqrtPc>>
qvVars == <<qvStorage, qvHistory, sqrtLocals>>
mfStorage == <<nextProjectId, projects, reviewerStakes, reviewerRole, reviewerVotes>>
mfTokens == <<escrow, received, stakeHeld>>
mfHistory == <<releaseLog, approvals, deposited>>
mfCalls == <<_status, inFlight, reverted>>
mfVars == <<mfStorage, mfTokens, mfHistory, mfCalls>>
vars == <<now, qvVars, mfVars>>

(***************************************************************************)
(* Digests.  keccak256 is modelled as an injective encoding whose value is *)
(* never bytes32(0): distinct inputs give distinct nonzero digests.        *)
(***************************************************************************)
\* keccak256(abi.encodePacked(voter))
keccakAddress(a) == 100 + a

\* MerkleProof's commutative pair hash: keccak256 of the sorted pair
hashPair(a, b) ==
    LET lo == IF a < b THEN a ELSE b
        hi == IF a < b THEN b ELSE a
    IN  1000 + ((lo + hi) * (lo + hi + 1)) \div 2 + hi

\* keccak256(abi.encodePacked(proposalId, voteCount, nonce)), three uint256 words
keccakVote(proposalId, voteCount, nonce) ==
    1 + nonce + 4 * (voteCount + (MAX_VOTES_PER_PROPOSAL + 3) * proposalId)

RECURSIVE processProof(_, _)
processProof(proof, computedHash) ==
    IF proof = <<>> THEN computedHash
    ELSE processProof(Tail(proof), hashPair(computedHash, Head(proof)))

_verifyVoter(voter, proof, root) ==
    LET leaf == keccakAddress(voter)
    IN  processProof(proof, leaf) = root

\* The allow-lists an administrator publishes, and the Merkle root of each: the
\* leaf of a single voter, or the pair hash of the leaves of two voters.
AllowLists == {<<2>>, <<2, 3>>}
MerkleRootOf(list) ==
    IF Len(list) = 1 THEN keccakAddress(list[1])
    ELSE hashPair(keccakAddress(list[1]), keccakAddress(list[2]))
Roots == {MerkleRootOf(l) : l \in AllowLists}
Members(root) == UNION {{l[i] : i \in 1..Len(l)} : l \in {k \in AllowLists : MerkleRootOf(k) = root}}
\* proofs a caller may supply: sibling paths made of the leaves of listed voters
ProofNodes == {keccakAddress(a) : a \in Members(MerkleRootOf(<<2, 3>>))}
Proofs == UNION {[1..n -> ProofNodes] : n \in 0..MaxProofLen}
\* votes <<proposalId, voteCount, nonce>> whose digests callers commit to: a vote
\* count of 0, the least and the greatest valid count, and a count over the maximum
CommittedVotes == {<<1, 0, 1>>, <<1, 1, 1>>, <<2, MAX_VOTES_PER_PROPOSAL, 2>>,
                   <<1, MAX_VOTES_PER_PROPOSAL + 1, 1>>}
\* commitments a caller may submit: bytes32(0) and the digests of CommittedVotes
Commitments == {0} \cup {keccakVote(v[1], v[2], v[3]) : v \in CommittedVotes}

(***************************************************************************)
(* _sqrt: Newton's iteration over the integers.                            *)
(***************************************************************************)
RECURSIVE sqrtLoop(_, _, _)
sqrtLoop(x, y, z) ==
    IF z < y THEN sqrtLoop(x, z, (x \div z + z) \div 2) ELSE y

_sqrt(x) ==
    IF x = 0 THEN 0 ELSE sqrtLoop(x, x, (x + 1) \div 2)

(***************************************************************************)
(* Initial state: both contracts freshly initialized.                      *)
(***************************************************************************)
EmptyRound == [startTime |-> 0, endTime |-> 0, commitEndTime |-> 0, totalCredits |-> 0,
               totalProposals |-> 0, finalized |-> FALSE, merkleRoot |-> 0]
EmptyVote == [commitment |-> 0, votesRevealed |-> 0, revealed |-> FALSE, counted |-> FALSE]
EmptyResult == [totalVotes |-> 0, quadraticScore |-> 0, uniqueVoters |-> 0, qualified |-> FALSE]

\* MilestoneStatus
Pending == "Pending"
InReview == "InReview"
Approved == "Approved"
Rejected == "Rejected"
Disputed == "Disputed"
Released == "Released"

\* ReentrancyGuard's two values of _status
NOT_ENTERED == "NOT_ENTERED"
ENTERED == "ENTERED"
\* no call of the funding contract is suspended
NoCall == [op |-> "none", sender |-> ZeroAddress, project |-> 0, milestone |-> 0,
           amount |-> 0, path |-> "none", saved |-> <<>>]

FundingToken == "token"
NoToken == "none"
EmptyMilestone == [fundingAmount |-> 0, deadline |-> 0, deliverableHash |-> "", status |-> Pending,
                   assignedReviewers |-> <<>>, approvalCount |-> 0, submissionTime |-> 0,
                   autoReleaseEnabled |-> FALSE, autoReleaseTime |-> 0]
EmptyProject == [creator |-> ZeroAddress, fundingToken |-> NoToken, totalFunding |-> 0,
                 releasedFunding |-> 0, milestoneCount |-> 0, active |-> FALSE, createdAt |-> 0,
                 milestones |-> [m \in MilestoneIds |-> EmptyMilestone]]
EmptyStake == [stakedAmount |-> 0, successfulReviews |-> 0, totalReviews |-> 0, active |-> FALSE]

InitQV ==
    /\ adminRole = {Admin}
    /\ paused = FALSE
    /\ currentRoundId = 0
    /\ votingRounds = [r \in RoundIds |-> EmptyRound]
    /\ votes = [r \in RoundIds |-> [a \in Addresses |-> EmptyVote]]
    /\ results = [r \in RoundIds |-> [p \in Proposals |-> EmptyResult]]
    /\ voterReputationScore = [a \in Addresses |-> 0]
    /\ committed = {}
    /\ revealedBy = {}
    /\ roundLog = <<>>
    /\ finalizeLog = <<>>

\* no call of _sqrt is being stepped through
InitSqrtIdle ==
    /\ sqrtX = 0
    /\ sqrtY = 0
    /\ sqrtZ = 0
    /\ sqrtPc = "return"

InitMF ==
    /\ nextProjectId = 1
    /\ projects = [p \in ProjectIds |-> EmptyProject]
    /\ reviewerStakes = [a \in Addresses |-> EmptyStake]
    /\ reviewerRole = {}
    /\ reviewerVotes = [p \in ProjectIds |-> [m \in MilestoneIds |-> [a \in Addresses |-> FALSE]]]
    /\ escrow = 0
    /\ received = [h \in Addresses \cup {Treasury} |-> 0]
    /\ stakeHeld = 0
    /\ releaseLog = <<>>
    /\ approvals = {}
    /\ deposited = [p \in ProjectIds |-> 0]
    /\ _status = NOT_ENTERED
    /\ inFlight = NoCall
    /\ reverted = {}

Init ==
    /\ now = 1
    /\ InitQV
    /\ InitSqrtIdle
    /\ InitMF

(***************************************************************************)
(* The clock: block.timestamp of the next transaction.                     *)
(***************************************************************************)
Tick ==
    /\ now % AUTO_RELEASE_DELAY < MaxTime
    /\ now' = now + 1
    /\ UNCHANGED <<qvVars, mfVars>>

(***************************************************************************)
(* QuadraticVoting                                                         *)
(***************************************************************************)
\* faulty variant: the check that the previous round is finalized is missing
startVotingRoundErrUnchecked(sender) ==
    IF sender \notin adminRole THEN "AccessControl" ELSE "ok"

startVotingRoundErr(sender) ==
    IF sender \notin adminRole THEN "AccessControl"
    ELSE IF ~(currentRoundId = 0 \/ votingRounds[currentRoundId].finalized)
         THEN "Previous round not finalized"
    ELSE "ok"

startVotingRound(sender, duration, commitDuration, merkleRoot) ==
    LET err == startVotingRoundErr(sender)
        startTime == now
    IN  /\ IF err = "ok"
           THEN /\ currentRoundId' = currentRoundId + 1
                /\ votingRounds' = [votingRounds EXCEPT ![currentRoundId + 1] =
                        [startTime |-> startTime,
                         endTime |-> startTime + duration,
                         commitEndTime |-> startTime + commitDuration,
                         totalCredits |-> 0,
                         totalProposals |-> 0,
                         finalized |-> FALSE,
                         merkleRoot |-> merkleRoot]]
                /\ roundLog' = Append(roundLog, currentRoundId + 1)
           ELSE UNCHANGED <<currentRoundId, votingRounds, roundLog>>
        /\ UNCHANGED <<mfVars, now, adminRole, paused, votes, results, voterReputationScore,
                       committed, revealedBy, finalizeLog, sqrtLocals>>

\* faulty variant: the eligibility proof is not verified
commitVoteErrUnverified(sender, commitment, merkleProof) ==
    LET round == votingRounds[currentRoundId]
    IN  IF paused THEN "Pausable: paused"
        ELSE IF now > round.commitEndTime \/ now < round.startTime THEN "InvalidVotingPhase"
        ELSE IF votes[currentRoundId][sender].commitment # 0 THEN "AlreadyVoted"
        ELSE "ok"

commitVoteErr(sender, commitment, merkleProof) ==
    LET round == votingRounds[currentRoundId]
    IN  IF paused THEN "Pausable: paused"
        ELSE IF now > round.commitEndTime \/ now < round.startTime THEN "InvalidVotingPhase"
        ELSE IF ~_verifyVoter(sender, merkleProof, round.merkleRoot) THEN "NotQualifiedVoter"
        ELSE IF votes[currentRoundId][sender].commitment # 0 THEN "AlreadyVoted"
        ELSE "ok"

commitVote(sender, commitment, merkleProof) ==
    LET err == commitVoteErr(sender, commitment, merkleProof)
    IN  /\ IF err = "ok"
           THEN /\ votes' = [votes EXCEPT ![currentRoundId][sender].commitment = commitment]
                /\ committed' = committed \cup {<<currentRoundId, sender>>}
           ELSE UNCHANGED <<votes, committed>>
        /\ UNCHANGED <<mfVars, now, adminRole, paused, currentRoundId, votingRounds, results,
                       voterReputationScore, revealedBy, roundLog, finalizeLog, sqrtLocals>>

\* faulty variant: a vote already revealed is not rejected
revealVoteErrRepeatable(sender, proposalId, voteCount, nonce) ==
    LET round == votingRounds[currentRoundId]
        vote == votes[currentRoundId][sender]
        computedHash == keccakVote(proposalId, voteCount, nonce)
        cost == voteCount * voteCount
    IN  IF paused THEN "Pausable: paused"
        ELSE IF now < round.commitEndTime \/ now > round.endTime THEN "InvalidVotingPhase"
        ELSE IF computedHash # vote.commitment THEN "InvalidCommitment"
        ELSE IF voteCount = 0 \/ voteCount > MAX_VOTES_PER_PROPOSAL THEN "InvalidVoteCount"
        ELSE IF cost > CREDITS_PER_ROUND THEN "InsufficientCredits"
        ELSE "ok"

\* faulty variant: the revealed vote is compared with the commitment on the proposal only
revealVoteErrLooseHash(sender, proposalId, voteCount, nonce) ==
    LET round == votingRounds[currentRoundId]
        vote == votes[currentRoundId][sender]
        cost == voteCount * voteCount
    IN  IF paused THEN "Pausable: paused"
        ELSE IF now < round.commitEndTime \/ now > round.endTime THEN "InvalidVotingPhase"
        ELSE IF vote.revealed THEN "AlreadyVoted"
        ELSE IF \A c \in VoteCounts, n \in Nonces : keccakVote(proposalId, c, n) # vote.commitment
             THEN "InvalidCommitment"
        ELSE IF voteCount = 0 \/ voteCount > MAX_VOTES_PER_PROPOSAL THEN "InvalidVoteCount"
        ELSE IF cost > CREDITS_PER_ROUND THEN "InsufficientCredits"
        ELSE "ok"

\* faulty variant: the range check on voteCount is missing
revealVoteErrNoRange(sender, proposalId, voteCount, nonce) ==
    LET round == votingRounds[currentRoundId]
        vote == votes[currentRoundId][sender]
        computedHash == keccakVote(proposalId, voteCount, nonce)
        cost == voteCount * voteCount
    IN  IF paused THEN "Pausable: paused"
        ELSE IF now < round.commitEndTime \/ now > round.endTime THEN "InvalidVotingPhase"
        ELSE IF vote.revealed THEN "AlreadyVoted"
        ELSE IF computedHash # vote.commitment THEN "InvalidCommitment"
        ELSE IF cost > CREDITS_PER_ROUND THEN "InsufficientCredits"
        ELSE "ok"

\* faulty variant: the reveal is matched against the caller's commitment of any round
revealVoteErrAnyRound(sender, proposalId, voteCount, nonce) ==
    LET round == votingRounds[currentRoundId]
        vote == votes[currentRoundId][sender]
        computedHash == keccakVote(proposalId, voteCount, nonce)
        cost == voteCount * voteCount
    IN  IF paused THEN "Pausable: paused"
        ELSE IF now < round.commitEndTime \/ now > round.endTime THEN "InvalidVotingPhase"
        ELSE IF vote.revealed THEN "AlreadyVoted"
        ELSE IF \A r \in RoundIds : computedHash # votes[r][sender].commitment
             THEN "InvalidCommitment"
        ELSE IF voteCount = 0 \/ voteCount > MAX_VOTES_PER_PROPOSAL THEN "InvalidVoteCount"
        ELSE IF cost > CREDITS_PER_ROUND THEN "InsufficientCredits"
        ELSE "ok"

\* faulty variant: the credit budget is checked before the vote-count range
revealVoteErrCreditsFirst(sender, proposalId, voteCount, nonce) ==
    LET round == votingRounds[currentRoundId]
        vote == votes[currentRoundId][sender]
        computedHash == keccakVote(proposalId, voteCount, nonce)
        cost == voteCount * voteCount
    IN  IF paused THEN "Pausable: paused"
        ELSE IF now < round.commitEndTime \/ now > round.endTime THEN "InvalidVotingPhase"
        ELSE IF vote.revealed THEN "AlreadyVoted"
        ELSE IF computedHash # vote.commitment THEN "InvalidCommitment"
        ELSE IF cost > CREDITS_PER_ROUND THEN "InsufficientCredits"
        ELSE IF voteCount = 0 \/ voteCount > MAX_VOTES_PER_PROPOSAL THEN "InvalidVoteCount"
        ELSE "ok"

revealVoteErr(sender, proposalId, voteCount, nonce) ==
    LET round == votingRounds[currentRoundId]
        vote == votes[currentRoundId][sender]
        computedHash == keccakVote(proposalId, voteCount, nonce)
        cost == voteCount * voteCount
    IN  IF paused THEN "Pausable: paused"
        ELSE IF now < round.commitEndTime \/ now > round.endTime THEN "InvalidVotingPhase"
        ELSE IF vote.revealed THEN "AlreadyVoted"
        ELSE IF computedHash # vote.commitment THEN "InvalidCommitment"
        ELSE IF voteCount = 0 \/ voteCount > MAX_VOTES_PER_PROPOSAL THEN "InvalidVoteCount"
        ELSE IF cost > CREDITS_PER_ROUND THEN "InsufficientCredits"
        ELSE "ok"

\* faulty variant: the reveal is tallied without counting the voter
revealVoteUncounted(sender, proposalId, voteCount, nonce) ==
    LET err == revealVoteErr(sender, proposalId, voteCount, nonce)
        cost == voteCount * voteCount
        result == results[currentRoundId][proposalId]
    IN  /\ IF err = "ok"
           THEN /\ votes' = [votes EXCEPT ![currentRoundId][sender].revealed = TRUE,
                                          ![currentRoundId][sender].votesRevealed = voteCount]
                /\ results' = [results EXCEPT ![currentRoundId][proposalId] =
                        [result EXCEPT !.totalVotes = @ + voteCount,
                                       !.quadraticScore = @ + _sqrt(voteCount * SCALE)]]
                /\ votingRounds' = [votingRounds EXCEPT ![currentRoundId].totalCredits = @ + cost]
                /\ voterReputationScore' = [voterReputationScore EXCEPT ![sender] = @ + 1]
                /\ revealedBy' = revealedBy \cup {<<currentRoundId, sender, proposalId, voteCount, nonce>>}
           ELSE UNCHANGED <<votes, results, votingRounds, voterReputationScore, revealedBy>>
        /\ UNCHANGED <<mfVars, now, adminRole, paused, currentRoundId, committed, roundLog,
                       finalizeLog, sqrtLocals>>

\* faulty variant: the round is charged voteCount credits, not voteCount squared
revealVoteLinearCost(sender, proposalId, voteCount, nonce) ==
    LET err == revealVoteErr(sender, proposalId, voteCount, nonce)
        cost == voteCount
        result == results[currentRoundId][proposalId]
    IN  /\ IF err = "ok"
           THEN /\ votes' = [votes EXCEPT ![currentRoundId][sender].revealed = TRUE,
                                          ![currentRoundId][sender].votesRevealed = voteCount]
                /\ results' = [results EXCEPT ![currentRoundId][proposalId] =
                        [result EXCEPT !.totalVotes = @ + voteCount,
                                       !.quadraticScore = @ + _sqrt(voteCount * SCALE),
                                       !.uniqueVoters = @ + 1]]
                /\ votingRounds' = [votingRounds EXCEPT ![currentRoundId].totalCredits = @ + cost]
                /\ voterReputationScore' = [voterReputationScore EXCEPT ![sender] = @ + 1]
                /\ revealedBy' = revealedBy \cup {<<currentRoundId, sender, proposalId, voteCount, nonce>>}
           ELSE UNCHANGED <<votes, results, votingRounds, voterReputationScore, revealedBy>>
        /\ UNCHANGED <<mfVars, now, adminRole, paused, currentRoundId, committed, roundLog,
                       finalizeLog, sqrtLocals>>

revealVote(sender, proposalId, voteCount, nonce) ==
    LET err == revealVoteErr(sender, proposalId, voteCount, nonce)
        cost == voteCount * voteCount
        result == results[currentRoundId][proposalId]
    IN  /\ IF err = "ok"
           THEN /\ votes' = [votes EXCEPT ![currentRoundId][sender].revealed = TRUE,
                                          ![currentRoundId][sender].votesRevealed = voteCount]
                /\ results' = [results EXCEPT ![currentRoundId][proposalId] =
                        [result EXCEPT !.totalVotes = @ + voteCount,
                                       !.quadraticScore = @ + _sqrt(voteCount * SCALE),
                                       !.uniqueVoters = @ + 1]]
                /\ votingRounds' = [votingRounds EXCEPT ![currentRoundId].totalCredits = @ + cost]
                /\ voterReputationScore' = [voterReputationScore EXCEPT ![sender] = @ + 1]
                /\ revealedBy' = revealedBy \cup {<<currentRoundId, sender, proposalId, voteCount, nonce>>}
           ELSE UNCHANGED <<votes, results, votingRounds, voterReputationScore, revealedBy>>
        /\ UNCHANGED <<mfVars, now, adminRole, paused, currentRoundId, committed, roundLog,
                       finalizeLog, sqrtLocals>>

\* faulty variant: the round can be finalized at its endTime
finalizeRoundErrAtEnd(sender) ==
    LET round == votingRounds[currentRoundId]
    IN  IF sender \notin adminRole THEN "AccessControl"
        ELSE IF ~(now >= round.endTime) THEN "Voting still active"
        ELSE IF round.finalized THEN "Already finalized"
        ELSE "ok"

\* faulty variant: a round nobody revealed in cannot be finalized
finalizeRoundErrNeedsVotes(sender) ==
    LET round == votingRounds[currentRoundId]
    IN  IF sender \notin adminRole THEN "AccessControl"
        ELSE IF ~(now > round.endTime) THEN "Voting still active"
        ELSE IF round.finalized THEN "Already finalized"
        ELSE IF round.totalCredits = 0 THEN "No votes"
        ELSE "ok"

finalizeRoundErr(sender) ==
    LET round == votingRounds[currentRoundId]
    IN  IF sender \notin adminRole THEN "AccessControl"
        ELSE IF ~(now > round.endTime) THEN "Voting still active"
        ELSE IF round.finalized THEN "Already finalized"
        ELSE "ok"

finalizeRound(sender) ==
    LET err == finalizeRoundErr(sender)
        round == votingRounds[currentRoundId]
    IN  /\ IF err = "ok"
           THEN /\ votingRounds' = [votingRounds EXCEPT ![currentRoundId].finalized = TRUE]
                /\ finalizeLog' = Append(finalizeLog,
                        [roundId |-> currentRoundId,
                         totalCredits |-> round.totalCredits,
                         sender |-> sender,
                         late |-> now > round.endTime,
                         again |-> round.finalized])
           ELSE UNCHANGED <<votingRounds, finalizeLog>>
        /\ UNCHANGED <<mfVars, now, adminRole, paused, currentRoundId, votes, results,
                       voterReputationScore, committed, revealedBy, roundLog, sqrtLocals>>

\* faulty variant: pause does not check the caller's role
pauseErrAnyone(sender) ==
    IF paused THEN "Pausable: paused" ELSE "ok"

pauseErr(sender) ==
    IF sender \notin adminRole THEN "AccessControl"
    ELSE IF paused THEN "Pausable: paused"
    ELSE "ok"

pause(sender) ==
    LET err == pauseErr(sender)
    IN  /\ paused' = IF err = "ok" THEN TRUE ELSE paused
        /\ UNCHANGED <<mfVars, now, adminRole, currentRoundId, votingRounds, votes, results,
                       voterReputationScore, qvHistory, sqrtLocals>>

unpauseErr(sender) ==
    IF sender \notin adminRole THEN "AccessControl"
    ELSE IF ~paused THEN "Pausable: not paused"
    ELSE "ok"

unpause(sender) ==
    LET err == unpauseErr(sender)
    IN  /\ paused' = IF err = "ok" THEN FALSE ELSE paused
        /\ UNCHANGED <<mfVars, now, adminRole, currentRoundId, votingRounds, votes, results,
                       voterReputationScore, qvHistory, sqrtLocals>>

(***************************************************************************)
(* MilestoneFunding                                                        *)
(***************************************************************************)
\* one jump of the clock over the auto-release delay
Warp ==
    /\ now < AUTO_RELEASE_DELAY
    /\ now' = now + AUTO_RELEASE_DELAY
    /\ UNCHANGED <<qvVars, mfVars>>

RECURSIVE SumSeq(_)
SumSeq(q) == IF q = <<>> THEN 0 ELSE Head(q) + SumSeq(Tail(q))

\* faulty variant: the deadlines are not compared with block.timestamp
createProjectErrAnyDeadline(sender, milestoneAmounts, nDescriptions, milestoneDeadlines) ==
    IF _status = ENTERED THEN "ReentrancyGuard: reentrant call"
    ELSE IF ~(Len(milestoneAmounts) >= 2) THEN "Minimum 2 milestones required"
    ELSE IF ~(Len(milestoneAmounts) <= 8) THEN "Maximum 8 milestones allowed"
    ELSE IF ~(Len(milestoneAmounts) = nDescriptions /\ nDescriptions = Len(milestoneDeadlines))
         THEN "Array length mismatch"
    ELSE "ok"

\* milestoneDescriptions is represented by its length
createProjectErr(sender, milestoneAmounts, nDescriptions, milestoneDeadlines) ==
    IF _status = ENTERED THEN "ReentrancyGuard: reentrant call"
    ELSE IF ~(Len(milestoneAmounts) >= 2) THEN "Minimum 2 milestones required"
    ELSE IF ~(Len(milestoneAmounts) <= 8) THEN "Maximum 8 milestones allowed"
    ELSE IF ~(Len(milestoneAmounts) = nDescriptions /\ nDescriptions = Len(milestoneDeadlines))
         THEN "Array length mismatch"
    ELSE IF \E i \in 1..Len(milestoneAmounts) : ~(milestoneDeadlines[i] > now)
         THEN "Invalid deadline"
    ELSE "ok"

createProject(sender, fundingToken, milestoneAmounts, nDescriptions, milestoneDeadlines) ==
    LET err == createProjectErr(sender, milestoneAmounts, nDescriptions, milestoneDeadlines)
        projectId == nextProjectId
        n == Len(milestoneAmounts)
    IN  /\ IF err = "ok"
           THEN /\ nextProjectId' = nextProjectId + 1
                /\ projects' = [projects EXCEPT ![projectId] =
                        [@ EXCEPT !.creator = sender,
                                  !.fundingToken = fundingToken,
                                  !.milestoneCount = n,
                                  !.active = TRUE,
                                  !.createdAt = now,
                                  !.totalFunding = SumSeq(milestoneAmounts),
                                  !.milestones = [m \in MilestoneIds |->
                                      IF m < n
                                      THEN [@[m] EXCEPT !.fundingAmount = milestoneAmounts[m + 1],
                                                        !.deadline = milestoneDeadlines[m + 1],
                                                        !.status = Pending,
                                                        !.autoReleaseEnabled = TRUE,
                                                        !.autoReleaseTime =
                                                            milestoneDeadlines[m + 1] + AUTO_RELEASE_DELAY]
                                      ELSE @[m]]]]
           ELSE UNCHANGED <<nextProjectId, projects>>
        /\ UNCHANGED <<qvVars, now, mfCalls, reviewerStakes, reviewerRole, reviewerVotes, mfTokens, mfHistory>>

\* transferred says whether the token moved the amount from the caller to the contract
fundProjectErr(sender, projectId, amount, transferred) ==
    IF _status = ENTERED THEN "ReentrancyGuard: reentrant call"
    ELSE IF ~projects[projectId].active THEN "Project not active"
    ELSE IF ~transferred THEN "ERC20: transfer failed"
    ELSE "ok"

fundProject(sender, projectId, amount, transferred) ==
    LET err == fundProjectErr(sender, projectId, amount, transferred)
    IN  /\ escrow' = IF err = "ok" THEN escrow + amount ELSE escrow
        /\ deposited' = IF err = "ok" THEN [deposited EXCEPT ![projectId] = @ + amount]
                         ELSE deposited
        /\ UNCHANGED <<qvVars, now, mfCalls, mfStorage, received, stakeHeld, releaseLog,
                       approvals>>

_assignReviewers(milestone) ==
    [milestone EXCEPT !.assignedReviewers = [i \in 1..MIN_REVIEWERS |-> ZeroAddress]]

\* faulty variant: the status of the milestone is not checked
submitMilestoneErrAnyStatus(sender, projectId, milestoneId) ==
    IF ~(sender = projects[projectId].creator) THEN "Only creator can submit"
    ELSE "ok"

submitMilestoneErr(sender, projectId, milestoneId) ==
    IF ~(sender = projects[projectId].creator) THEN "Only creator can submit"
    ELSE IF ~(projects[projectId].milestones[milestoneId].status = Pending) THEN "Invalid status"
    ELSE "ok"

submitMilestone(sender, projectId, milestoneId, deliverableHash) ==
    LET err == submitMilestoneErr(sender, projectId, milestoneId)
    IN  /\ IF err = "ok"
           THEN projects' = [projects EXCEPT ![projectId].milestones[milestoneId] =
                    _assignReviewers([@ EXCEPT !.deliverableHash = deliverableHash,
                                               !.status = InReview,
                                               !.submissionTime = now])]
           ELSE UNCHANGED projects
        /\ UNCHANGED <<qvVars, now, mfCalls, nextProjectId, reviewerStakes, reviewerRole, reviewerVotes,
                       mfTokens, mfHistory>>

_checkMilestoneApproval(milestone) ==
    LET requiredApprovals == (Len(milestone.assignedReviewers) * APPROVAL_THRESHOLD) \div 100
    IN  IF milestone.approvalCount >= requiredApprovals
        THEN [milestone EXCEPT !.status = Approved]
        ELSE milestone

\* faulty variant: the caller need not be on the milestone's panel
reviewMilestoneErrAnyPanel(sender, projectId, milestoneId) ==
    LET milestone == projects[projectId].milestones[milestoneId]
    IN  IF sender \notin reviewerRole THEN "AccessControl"
        ELSE IF ~reviewerStakes[sender].active THEN "Reviewer not active"
        ELSE IF ~(milestone.status = InReview) THEN "Not in review"
        ELSE IF reviewerVotes[projectId][milestoneId][sender] THEN "Already reviewed"
        ELSE "ok"

\* faulty variant: a reviewer may review the same milestone again
reviewMilestoneErrRepeatable(sender, projectId, milestoneId) ==
    LET milestone == projects[projectId].milestones[milestoneId]
        isAssigned == \E i \in 1..Len(milestone.assignedReviewers) :
                          milestone.assignedReviewers[i] = sender
    IN  IF sender \notin reviewerRole THEN "AccessControl"
        ELSE IF ~reviewerStakes[sender].active THEN "Reviewer not active"
        ELSE IF ~(milestone.status = InReview) THEN "Not in review"
        ELSE IF ~isAssigned THEN "Not assigned reviewer"
        ELSE "ok"

reviewMilestoneErr(sender, projectId, milestoneId) ==
    LET milestone == projects[projectId].milestones[milestoneId]
        isAssigned == \E i \in 1..Len(milestone.assignedReviewers) :
                          milestone.assignedReviewers[i] = sender
    IN  IF sender \notin reviewerRole THEN "AccessControl"
        ELSE IF ~reviewerStakes[sender].active THEN "Reviewer not active"
        ELSE IF ~(milestone.status = InReview) THEN "Not in review"
        ELSE IF reviewerVotes[projectId][milestoneId][sender] THEN "Already reviewed"
        ELSE IF ~isAssigned THEN "Not assigned reviewer"
        ELSE "ok"

reviewMilestone(sender, projectId, milestoneId, approved) ==
    LET err == reviewMilestoneErr(sender, projectId, milestoneId)
    IN  /\ IF err = "ok"
           THEN /\ reviewerVotes' = [reviewerVotes EXCEPT ![projectId][milestoneId][sender] = TRUE]
                /\ projects' = [projects EXCEPT ![projectId].milestones[milestoneId] =
                        _checkMilestoneApproval(
                            [@ EXCEPT !.approvalCount = IF approved THEN @ + 1 ELSE @])]
                /\ reviewerStakes' = [reviewerStakes EXCEPT ![sender].totalReviews = @ + 1]
                /\ approvals' = IF approved
                                THEN approvals \cup {<<projectId, milestoneId, sender>>}
                                ELSE approvals
           ELSE UNCHANGED <<reviewerVotes, projects, reviewerStakes, approvals>>
        /\ UNCHANGED <<qvVars, now, mfCalls, nextProjectId, reviewerRole, mfTokens, releaseLog,
                       deposited>>

\* faulty variant: the auto-release path opens at autoReleaseTime itself
releasePathAtDeadline(milestone) ==
    IF milestone.status = Approved THEN "approved"
    ELSE IF /\ milestone.autoReleaseEnabled
            /\ now >= milestone.autoReleaseTime
            /\ milestone.status = InReview THEN "auto"
    ELSE "none"

\* faulty variant: the auto-release path does not wait for autoReleaseTime
releasePathNoDelay(milestone) ==
    IF milestone.status = Approved THEN "approved"
    ELSE IF milestone.autoReleaseEnabled /\ milestone.status = InReview THEN "auto"
    ELSE "none"

\* faulty variant: the auto-release path does not require the milestone to be InReview
releasePathAnyStatus(milestone) ==
    IF milestone.status = Approved THEN "approved"
    ELSE IF milestone.autoReleaseEnabled /\ now > milestone.autoReleaseTime THEN "auto"
    ELSE "none"

\* the release path: "approved" (status Approved), "auto" (InReview past the
\* auto-release time), or "none"
releasePath(milestone) ==
    IF milestone.status = Approved THEN "approved"
    ELSE IF /\ milestone.autoReleaseEnabled
            /\ now > milestone.autoReleaseTime
            /\ milestone.status = InReview
         THEN "auto"
    ELSE "none"

\* faulty variant: a milestone that is already Released passes the status checks
releaseMilestoneFundsErrRepeatable(sender, projectId, milestoneId) ==
    LET milestone == projects[projectId].milestones[milestoneId]
        canRelease == releasePath(milestone) # "none" \/ milestone.status = Released
    IN  IF _status = ENTERED THEN "ReentrancyGuard: reentrant call"
        ELSE IF ~canRelease THEN "Cannot release funds"
        ELSE IF escrow < milestone.fundingAmount THEN "ERC20: transfer amount exceeds balance"
        ELSE "ok"

releaseMilestoneFundsErr(sender, projectId, milestoneId) ==
    LET milestone == projects[projectId].milestones[milestoneId]
        canRelease == releasePath(milestone) # "none"
        \* the status after the auto-release path has set it to Approved
        status == IF releasePath(milestone) = "auto" THEN Approved ELSE milestone.status
    IN  IF _status = ENTERED THEN "ReentrancyGuard: reentrant call"
        ELSE IF ~canRelease THEN "Cannot release funds"
        ELSE IF ~(status # Released) THEN "Already released"
        ELSE IF escrow < milestone.fundingAmount THEN "ERC20: transfer amount exceeds balance"
        ELSE "ok"

\* faulty variant: releasedFunding grows by the creator's share, not by the full amount
releaseMilestoneFundsNetOfFee(sender, projectId, milestoneId) ==
    LET err == releaseMilestoneFundsErr(sender, projectId, milestoneId)
        project == projects[projectId]
        milestone == project.milestones[milestoneId]
        releaseAmount == milestone.fundingAmount
        platformFee == (releaseAmount * platformFeeRate) \div 10000
        creatorAmount == releaseAmount - platformFee
    IN  /\ IF err = "ok"
           THEN /\ projects' = [projects EXCEPT
                        ![projectId].milestones[milestoneId].status = Released,
                        ![projectId].releasedFunding = @ + creatorAmount]
                /\ escrow' = escrow - creatorAmount - platformFee
                /\ received' = [h \in DOMAIN received |->
                        received[h] + (IF h = project.creator THEN creatorAmount ELSE 0)
                                    + (IF h = Treasury THEN platformFee ELSE 0)]
                /\ releaseLog' = Append(releaseLog,
                        [project |-> projectId, milestone |-> milestoneId,
                         path |-> releasePath(milestone),
                         late |-> now > milestone.autoReleaseTime,
                         amount |-> releaseAmount])
           ELSE UNCHANGED <<projects, escrow, received, releaseLog>>
        /\ UNCHANGED <<qvVars, now, mfCalls, nextProjectId, reviewerStakes, reviewerRole, reviewerVotes,
                       stakeHeld, approvals, deposited>>

releaseMilestoneFundsFeeToCaller(sender, projectId, milestoneId) ==
    LET err == releaseMilestoneFundsErr(sender, projectId, milestoneId)
        project == projects[projectId]
        milestone == project.milestones[milestoneId]
        releaseAmount == milestone.fundingAmount
        platformFee == (releaseAmount * platformFeeRate) \div 10000
        creatorAmount == releaseAmount - platformFee
    IN  /\ IF err = "ok"
           THEN /\ projects' = [projects EXCEPT
                        ![projectId].milestones[milestoneId].status = Released,
                        ![projectId].releasedFunding = @ + releaseAmount]
                /\ escrow' = escrow - creatorAmount - platformFee
                /\ received' = [h \in DOMAIN received |->
                        received[h] + (IF h = project.creator THEN creatorAmount ELSE 0)
                                    + (IF h = sender THEN platformFee ELSE 0)]
                /\ releaseLog' = Append(releaseLog,
                        [project |-> projectId, milestone |-> milestoneId,
                         path |-> releasePath(milestone),
                         late |-> now > milestone.autoReleaseTime,
                         amount |-> releaseAmount])
           ELSE UNCHANGED <<projects, escrow, received, releaseLog>>
        /\ UNCHANGED <<qvVars, now, mfCalls, nextProjectId, reviewerStakes, reviewerRole, reviewerVotes,
                       stakeHeld, approvals, deposited>>

releaseMilestoneFunds(sender, projectId, milestoneId) ==
    LET err == releaseMilestoneFundsErr(sender, projectId, milestoneId)
        project == projects[projectId]
        milestone == project.milestones[milestoneId]
        releaseAmount == milestone.fundingAmount
        platformFee == (releaseAmount * platformFeeRate) \div 10000
        creatorAmount == releaseAmount - platformFee
    IN  /\ IF err = "ok"
           THEN /\ projects' = [projects EXCEPT
                        ![projectId].milestones[milestoneId].status = Released,
                        ![projectId].releasedFunding = @ + releaseAmount]
                /\ escrow' = escrow - creatorAmount - platformFee
                /\ received' = [h \in DOMAIN received |->
                        received[h] + (IF h = project.creator THEN creatorAmount ELSE 0)
                                    + (IF h = Treasury THEN platformFee ELSE 0)]
                /\ releaseLog' = Append(releaseLog,
                        [project |-> projectId, milestone |-> milestoneId,
                         path |-> releasePath(milestone),
                         late |-> now > milestone.autoReleaseTime,
                         amount |-> releaseAmount])
           ELSE UNCHANGED <<projects, escrow, received, releaseLog>>
        /\ UNCHANGED <<qvVars, now, mfCalls, nextProjectId, reviewerStakes, reviewerRole, reviewerVotes,
                       stakeHeld, approvals, deposited>>

\* transferred says whether the stake token moved the stake from the caller to the contract
\* faulty variant: a caller whose stake is active may stake again
stakeAsReviewerErrRepeatable(sender, transferred) ==
    IF _status = ENTERED THEN "ReentrancyGuard: reentrant call"
    ELSE IF ~transferred THEN "ERC20: transfer failed"
    ELSE "ok"

stakeAsReviewerErr(sender, transferred) ==
    IF _status = ENTERED THEN "ReentrancyGuard: reentrant call"
    ELSE IF ~(~reviewerStakes[sender].active) THEN "Already active reviewer"
    ELSE IF ~transferred THEN "ERC20: transfer failed"
    ELSE "ok"

stakeAsReviewer(sender, transferred) ==
    LET err == stakeAsReviewerErr(sender, transferred)
    IN  /\ IF err = "ok"
           THEN /\ stakeHeld' = stakeHeld + REVIEWER_STAKE_REQUIRED
                /\ reviewerStakes' = [reviewerStakes EXCEPT ![sender] =
                        [stakedAmount |-> REVIEWER_STAKE_REQUIRED, successfulReviews |-> 0,
                         totalReviews |-> 0, active |-> TRUE]]
                /\ reviewerRole' = reviewerRole \cup {sender}
           ELSE UNCHANGED <<stakeHeld, reviewerStakes, reviewerRole>>
        /\ UNCHANGED <<qvVars, now, mfCalls, nextProjectId, projects, reviewerVotes, escrow, received,
                       mfHistory>>

(***************************************************************************)
(* Calls that hand control to a token contract.  fundProject and           *)
(* releaseMilestoneFunds call the project's fundingToken, an address the   *)
(* project's creator chose; until that call returns the token contract may *)
(* call the funding contract back.  Each of the two functions is split at  *)
(* its token call: the first step runs the function up to the call, the    *)
(* second is the return of the call, which completes the function or       *)
(* reverts the whole transaction, nested calls included.                   *)
(***************************************************************************)
\* the contract's storage, balances and events at the start of a transaction
Checkpoint ==
    [nextProjectId |-> nextProjectId, projects |-> projects,
     reviewerStakes |-> reviewerStakes, reviewerRole |-> reviewerRole,
     reviewerVotes |-> reviewerVotes, escrow |-> escrow, received |-> received,
     stakeHeld |-> stakeHeld, releaseLog |-> releaseLog, approvals |-> approvals,
     deposited |-> deposited]

\* a revert: every write since the checkpoint is undone
Revert(saved) ==
    /\ nextProjectId' = saved.nextProjectId
    /\ projects' = saved.projects
    /\ reviewerStakes' = saved.reviewerStakes
    /\ reviewerRole' = saved.reviewerRole
    /\ reviewerVotes' = saved.reviewerVotes
    /\ escrow' = saved.escrow
    /\ received' = saved.received
    /\ stakeHeld' = saved.stakeHeld
    /\ releaseLog' = saved.releaseLog
    /\ approvals' = saved.approvals
    /\ deposited' = saved.deposited

\* fundProject up to its call of safeTransferFrom
fundProjectEnter(sender, projectId, amount) ==
    /\ inFlight = NoCall
    /\ _status = NOT_ENTERED
    /\ projects[projectId].active
    /\ _status' = ENTERED
    /\ inFlight' = [op |-> "fundProject", sender |-> sender, project |-> projectId,
                    milestone |-> 0, amount |-> amount, path |-> "none",
                    saved |-> Checkpoint]
    /\ UNCHANGED <<qvVars, now, mfStorage, mfTokens, mfHistory, reverted>>

\* the return of safeTransferFrom to fundProject
fundProjectReturn(transferred) ==
    /\ inFlight.op = "fundProject"
    /\ IF transferred
       THEN /\ escrow' = escrow + inFlight.amount
            /\ deposited' = [deposited EXCEPT ![inFlight.project] = @ + inFlight.amount]
            /\ UNCHANGED <<mfStorage, received, stakeHeld, releaseLog, approvals, reverted>>
       ELSE /\ Revert(inFlight.saved)
            /\ reverted' = reverted \cup {<<inFlight.op, inFlight.project, inFlight.milestone>>}
    /\ _status' = NOT_ENTERED
    /\ inFlight' = NoCall
    /\ UNCHANGED <<qvVars, now>>

\* releaseMilestoneFunds up to its first call of safeTransfer: the status is Released
\* and releasedFunding has grown
releaseMilestoneFundsEnter(sender, projectId, milestoneId) ==
    LET project == projects[projectId]
        milestone == project.milestones[milestoneId]
        canRelease == releasePath(milestone) # "none"
        status == IF releasePath(milestone) = "auto" THEN Approved ELSE milestone.status
        releaseAmount == milestone.fundingAmount
    IN  /\ inFlight = NoCall
        /\ _status = NOT_ENTERED
        /\ canRelease
        /\ status # Released
        /\ projects' = [projects EXCEPT
                ![projectId].milestones[milestoneId].status = Released,
                ![projectId].releasedFunding = @ + releaseAmount]
        /\ _status' = ENTERED
        /\ inFlight' = [op |-> "releaseMilestoneFunds", sender |-> sender,
                        project |-> projectId, milestone |-> milestoneId,
                        amount |-> releaseAmount, path |-> releasePath(milestone),
                        saved |-> Checkpoint]
        /\ UNCHANGED <<qvVars, now, nextProjectId, reviewerStakes, reviewerRole, reviewerVotes,
                       mfTokens, mfHistory, reverted>>

\* faulty variant: a failed transfer ends the call without undoing its writes
releaseMilestoneFundsReturnNoRevert ==
    LET project == projects[inFlight.project]
        milestone == project.milestones[inFlight.milestone]
        releaseAmount == inFlight.amount
        platformFee == (releaseAmount * platformFeeRate) \div 10000
        creatorAmount == releaseAmount - platformFee
    IN  /\ inFlight.op = "releaseMilestoneFunds"
        /\ IF escrow >= releaseAmount
           THEN /\ escrow' = escrow - creatorAmount - platformFee
                /\ received' = [h \in DOMAIN received |->
                        received[h] + (IF h = project.creator THEN creatorAmount ELSE 0)
                                    + (IF h = Treasury THEN platformFee ELSE 0)]
                /\ releaseLog' = Append(releaseLog,
                        [project |-> inFlight.project, milestone |-> inFlight.milestone,
                         path |-> inFlight.path,
                         late |-> now > milestone.autoReleaseTime,
                         amount |-> releaseAmount])
                /\ UNCHANGED <<mfStorage, stakeHeld, approvals, deposited, reverted>>
           ELSE /\ UNCHANGED <<mfStorage, mfTokens, mfHistory>>
                /\ reverted' = reverted \cup {<<inFlight.op, inFlight.project, inFlight.milestone>>}
        /\ _status' = NOT_ENTERED
        /\ inFlight' = NoCall
        /\ UNCHANGED <<qvVars, now>>

\* the return of the token's transfers to releaseMilestoneFunds: both succeed, or the
\* contract holds less than the amount and the transaction reverts
releaseMilestoneFundsReturn ==
    LET project == projects[inFlight.project]
        milestone == project.milestones[inFlight.milestone]
        releaseAmount == inFlight.amount
        platformFee == (releaseAmount * platformFeeRate) \div 10000
        creatorAmount == releaseAmount - platformFee
    IN  /\ inFlight.op = "releaseMilestoneFunds"
        /\ IF escrow >= releaseAmount
           THEN /\ escrow' = escrow - creatorAmount - platformFee
                /\ received' = [h \in DOMAIN received |->
                        received[h] + (IF h = project.creator THEN creatorAmount ELSE 0)
                                    + (IF h = Treasury THEN platformFee ELSE 0)]
                /\ releaseLog' = Append(releaseLog,
                        [project |-> inFlight.project, milestone |-> inFlight.milestone,
                         path |-> inFlight.path,
                         late |-> now > milestone.autoReleaseTime,
                         amount |-> releaseAmount])
                /\ UNCHANGED <<mfStorage, stakeHeld, approvals, deposited, reverted>>
           ELSE /\ Revert(inFlight.saved)
                /\ reverted' = reverted \cup {<<inFlight.op, inFlight.project, inFlight.milestone>>}
        /\ _status' = NOT_ENTERED
        /\ inFlight' = NoCall
        /\ UNCHANGED <<qvVars, now>>

\* the token contract that the suspended call has handed control to
Callee == projects[inFlight.project].fundingToken

\* The projects callers create: two well-formed plans of two milestones, and one
\* plan for each way createProject rejects its input.
Plans == {
    [amounts |-> <<50, 100>>, descriptions |-> 2, offsets |-> <<1, 2>>],
    [amounts |-> <<30, 10>>, descriptions |-> 2, offsets |-> <<2, 1>>],
    [amounts |-> <<100>>, descriptions |-> 1, offsets |-> <<1>>],
    [amounts |-> <<10, 10, 10, 10, 10, 10, 10, 10, 10>>, descriptions |-> 9,
     offsets |-> <<1, 1, 1, 1, 1, 1, 1, 1, 1>>],
    [amounts |-> <<50, 100>>, descriptions |-> 3, offsets |-> <<1, 2>>],
    [amounts |-> <<50, 100>>, descriptions |-> 2, offsets |-> <<0, 1>>]}
FundAmounts == {100}
DeliverableHashes == {"QmDeliverable"}
Creators == {2}             \* callers of createProject
Funders == {1}              \* callers of fundProject
Stakers == {3}              \* callers of stakeAsReviewer

\* SpecMF follows one project, the first created, and calls made for project 0
MFProjects == {0, 1}

NextMF ==
    \/ Tick
    \/ Warp
    \/ /\ nextProjectId \in MFProjects
       /\ \E s \in Creators, plan \in Plans :
            createProject(s, FundingToken, plan.amounts, plan.descriptions,
                          [i \in 1..Len(plan.offsets) |-> now + plan.offsets[i]])
    \/ \E s \in Funders, p \in MFProjects, a \in FundAmounts, t \in BOOLEAN :
            escrow + a <= MaxEscrow /\ fundProject(s, p, a, t)
    \/ \E s \in Addresses, p \in MFProjects, m \in MilestoneIds, h \in DeliverableHashes :
            submitMilestone(s, p, m, h)
    \/ \E s \in Addresses, p \in MFProjects, m \in MilestoneIds, a \in BOOLEAN :
            reviewMilestone(s, p, m, a)
    \/ \E s \in Addresses, p \in MFProjects, m \in MilestoneIds : releaseMilestoneFunds(s, p, m)
    \/ \E s \in Stakers, t \in BOOLEAN : stakeAsReviewer(s, t)

SpecMF == Init /\ [][NextMF]_vars

(***************************************************************************)
(* _sqrt statement by statement: one call for each argument in SqrtInputs, *)
(* the small arguments and the ones revealVote passes.                     *)
(***************************************************************************)
SqrtInputs == (0..MaxSqrtInput) \cup {v * SCALE : v \in 1..MAX_VOTES_PER_PROPOSAL}

InitSqrt ==
    /\ now = 1
    /\ InitQV
    /\ InitMF
    /\ sqrtX \in SqrtInputs
    /\ sqrtY = 0
    /\ sqrtZ = 0
    /\ sqrtPc = "entry"

\* if (x == 0) return 0; z = (x + 1) / 2; y = x;
SqrtEnter ==
    /\ sqrtPc = "entry"
    /\ IF sqrtX = 0
       THEN /\ sqrtY' = 0
            /\ sqrtZ' = sqrtZ
            /\ sqrtPc' = "return"
       ELSE /\ sqrtZ' = (sqrtX + 1) \div 2
            /\ sqrtY' = sqrtX
            /\ sqrtPc' = "loop"
    /\ UNCHANGED <<now, qvStorage, qvHistory, mfVars, sqrtX>>

\* faulty variant: the function returns z, not y
SqrtIterateReturnsZ ==
    /\ sqrtPc = "loop"
    /\ IF sqrtZ < sqrtY
       THEN /\ sqrtY' = sqrtZ
            /\ sqrtZ' = (sqrtX \div sqrtZ + sqrtZ) \div 2
            /\ sqrtPc' = "loop"
       ELSE /\ sqrtY' = sqrtZ
            /\ sqrtZ' = sqrtZ
            /\ sqrtPc' = "return"
    /\ UNCHANGED <<now, qvStorage, qvHistory, mfVars, sqrtX>>

\* while (z < y) { y = z; z = (x / z + z) / 2; } return y;
SqrtIterate ==
    /\ sqrtPc = "loop"
    /\ IF sqrtZ < sqrtY
       THEN /\ sqrtY' = sqrtZ
            /\ sqrtZ' = (sqrtX \div sqrtZ + sqrtZ) \div 2
            /\ sqrtPc' = "loop"
       ELSE /\ sqrtY' = sqrtY
            /\ sqrtZ' = sqrtZ
            /\ sqrtPc' = "return"
    /\ UNCHANGED <<now, qvStorage, qvHistory, mfVars, sqrtX>>

NextSqrt ==
    \/ SqrtEnter
    \/ SqrtIterate

\* a call that has started runs on: the function has no point at which it waits
SpecSqrt == InitSqrt /\ [][NextSqrt]_vars /\ WF_vars(NextSqrt)

(***************************************************************************)
(* Project creation on its own: every project id of the model is created.  *)
(***************************************************************************)
NextCreate ==
    \/ Tick
    \/ /\ nextProjectId \in ProjectIds
       /\ \E s \in Addresses, plan \in Plans :
            createProject(s, FundingToken, plan.amounts, plan.descriptions,
                          [i \in 1..Len(plan.offsets) |-> now + plan.offsets[i]])

SpecCreate == Init /\ [][NextCreate]_vars

(***************************************************************************)
(* The quorum rule on its own.  _assignReviewers leaves the panel empty of *)
(* real reviewers, so reviewMilestone never gets as far as                 *)
(* _checkMilestoneApproval in SpecMF.  Here the rule is applied from a     *)
(* state in which project 1 has one milestone InReview whose               *)
(* assignedReviewers is a panel of staked reviewers.                       *)
(***************************************************************************)
Panels == {<<1, 2>>, <<2, 3>>, <<1, 2, 3>>}
ReviewedMilestones == {0, 1}

InitQuorum ==
    /\ now = 1
    /\ InitQV
    /\ InitSqrtIdle
    /\ nextProjectId = 2
    /\ \E panel \in Panels, reviewed \in ReviewedMilestones :
          projects = [p \in ProjectIds |->
              IF p = 1
              THEN [EmptyProject EXCEPT
                       !.creator = 2, !.fundingToken = FundingToken, !.totalFunding = 150,
                       !.milestoneCount = 2, !.active = TRUE, !.createdAt = 1,
                       !.milestones = [m \in MilestoneIds |->
                           IF m < 2
                           THEN [EmptyMilestone EXCEPT
                                    !.fundingAmount = <<50, 100>>[m + 1],
                                    !.deadline = 2 + m,
                                    !.autoReleaseEnabled = TRUE,
                                    !.autoReleaseTime = 2 + m + AUTO_RELEASE_DELAY,
                                    !.status = IF m = reviewed THEN InReview ELSE Pending,
                                    !.deliverableHash = IF m = reviewed THEN "QmDeliverable" ELSE "",
                                    !.submissionTime = IF m = reviewed THEN 1 ELSE 0,
                                    !.assignedReviewers = IF m = reviewed THEN panel ELSE <<>>]
                           ELSE EmptyMilestone]]
              ELSE EmptyProject]
    /\ reviewerStakes = [a \in Addresses |->
          [stakedAmount |-> REVIEWER_STAKE_REQUIRED, successfulReviews |-> 0,
           totalReviews |-> 0, active |-> TRUE]]
    /\ reviewerRole = Addresses
    /\ reviewerVotes = [p \in ProjectIds |-> [m \in MilestoneIds |-> [a \in Addresses |-> FALSE]]]
    /\ escrow = 0
    /\ received = [h \in Addresses \cup {Treasury} |-> 0]
    /\ stakeHeld = 3 * REVIEWER_STAKE_REQUIRED
    /\ releaseLog = <<>>
    /\ approvals = {}
    /\ deposited = [p \in ProjectIds |-> 0]
    /\ _status = NOT_ENTERED
    /\ inFlight = NoCall
    /\ reverted = {}

NextQuorum ==
    \/ Tick
    \/ \E s \in Addresses, p \in ProjectIds, m \in MilestoneIds, a \in BOOLEAN :
            reviewMilestone(s, p, m, a)

SpecQuorum == InitQuorum /\ [][NextQuorum]_vars

\* SpecReview follows project 1 from the submission of one milestone to its release: the
\* milestone has a panel of addresses, of which 1 and 2 have staked and 3 may stake later
InitialReviewers == {1, 2}

InitReview ==
    /\ now = 1
    /\ InitQV
    /\ InitSqrtIdle
    /\ nextProjectId = 2
    /\ \E panel \in Panels, reviewed \in ReviewedMilestones :
          projects = [p \in ProjectIds |->
              IF p = 1
              THEN [EmptyProject EXCEPT
                       !.creator = 2, !.fundingToken = FundingToken, !.totalFunding = 150,
                       !.milestoneCount = 2, !.active = TRUE, !.createdAt = 1,
                       !.milestones = [m \in MilestoneIds |->
                           IF m < 2
                           THEN [EmptyMilestone EXCEPT
                                    !.fundingAmount = <<50, 100>>[m + 1],
                                    !.deadline = 2 + m,
                                    !.autoReleaseEnabled = TRUE,
                                    !.autoReleaseTime = 2 + m + AUTO_RELEASE_DELAY,
                                    !.status = IF m = reviewed THEN InReview ELSE Pending,
                                    !.deliverableHash = IF m = reviewed THEN "QmDeliverable" ELSE "",
                                    !.submissionTime = IF m = reviewed THEN 1 ELSE 0,
                                    !.assignedReviewers = IF m = reviewed THEN panel ELSE <<>>]
                           ELSE EmptyMilestone]]
              ELSE EmptyProject]
    /\ reviewerStakes = [a \in Addresses |->
          IF a \in InitialReviewers
          THEN [stakedAmount |-> REVIEWER_STAKE_REQUIRED, successfulReviews |-> 0,
                totalReviews |-> 0, active |-> TRUE]
          ELSE [stakedAmount |-> 0, successfulReviews |-> 0,
                totalReviews |-> 0, active |-> FALSE]]
    /\ reviewerRole = InitialReviewers
    /\ reviewerVotes = [p \in ProjectIds |-> [m \in MilestoneIds |-> [a \in Addresses |-> FALSE]]]
    /\ escrow = 0
    /\ received = [h \in Addresses \cup {Treasury} |-> 0]
    /\ stakeHeld = Cardinality(InitialReviewers) * REVIEWER_STAKE_REQUIRED
    /\ releaseLog = <<>>
    /\ approvals = {}
    /\ deposited = [p \in ProjectIds |-> 0]
    /\ _status = NOT_ENTERED
    /\ inFlight = NoCall
    /\ reverted = {}

ReviewProjects == {1}

NextReview ==
    \/ Tick
    \/ Warp
    \/ \E s \in Funders, p \in ReviewProjects, a \in FundAmounts, t \in BOOLEAN :
            escrow + a <= MaxEscrow /\ fundProject(s, p, a, t)
    \/ \E s \in Creators, p \in ReviewProjects, m \in ReviewedMilestones,
          h \in DeliverableHashes :
            submitMilestone(s, p, m, h)
    \/ \E s \in Addresses, p \in ReviewProjects, m \in ReviewedMilestones, a \in BOOLEAN :
            reviewMilestone(s, p, m, a)
    \/ \E s \in Addresses, p \in ReviewProjects, m \in ReviewedMilestones :
            releaseMilestoneFunds(s, p, m)
    \/ \E s \in Stakers, t \in BOOLEAN : stakeAsReviewer(s, t)

SpecReview == InitReview /\ [][NextReview]_vars

\* SpecReentry: projects whose funding token is a contract that calls the funding
\* contract back while fundProject or releaseMilestoneFunds is suspended in it.  Address 3
\* is such a token contract; it is also the creator of the projects it is the token of.
TokenContracts == {3}
ReentryPlans == {[amounts |-> <<50, 100>>, descriptions |-> 2, offsets |-> <<1, 2>>]}
ReentryProjects == {1}
ReentryMilestones == {0, 1}

\* Transactions are sent while no call is suspended; while one is, the only calls are
\* those of the token contract it is suspended in (Callee), until the token call returns.
NextReentry ==
    \/ inFlight = NoCall /\ Tick
    \/ inFlight = NoCall /\ Warp
    \/ /\ inFlight = NoCall
       /\ nextProjectId \in ReentryProjects
       /\ \E s \in TokenContracts, plan \in ReentryPlans :
            createProject(s, s, plan.amounts, plan.descriptions,
                          [i \in 1..Len(plan.offsets) |-> now + plan.offsets[i]])
    \/ \E s \in Funders, p \in ReentryProjects, a \in FundAmounts :
            escrow + a <= MaxEscrow /\ fundProjectEnter(s, p, a)
    \/ /\ inFlight = NoCall
       /\ \E s \in TokenContracts, p \in ReentryProjects, m \in ReentryMilestones,
             h \in DeliverableHashes :
            submitMilestone(s, p, m, h)
    \/ \E s \in Funders, p \in ReentryProjects, m \in ReentryMilestones :
            releaseMilestoneFundsEnter(s, p, m)
    \/ /\ inFlight = NoCall
       /\ \E s \in TokenContracts, t \in BOOLEAN : stakeAsReviewer(s, t)
    \/ /\ inFlight # NoCall /\ Callee \in TokenContracts
       /\ \E plan \in ReentryPlans :
            createProject(Callee, Callee, plan.amounts, plan.descriptions,
                          [i \in 1..Len(plan.offsets) |-> now + plan.offsets[i]])
    \/ /\ inFlight # NoCall /\ Callee \in TokenContracts
       /\ \E p \in ReentryProjects, a \in FundAmounts, t \in BOOLEAN :
            fundProject(Callee, p, a, t)
    \/ /\ inFlight # NoCall /\ Callee \in TokenContracts
       /\ \E p \in ReentryProjects, m \in ReentryMilestones, h \in DeliverableHashes :
            submitMilestone(Callee, p, m, h)
    \/ /\ inFlight # NoCall /\ Callee \in TokenContracts
       /\ \E p \in ReentryProjects, m \in ReentryMilestones, a \in BOOLEAN :
            reviewMilestone(Callee, p, m, a)
    \/ /\ inFlight # NoCall /\ Callee \in TokenContracts
       /\ \E p \in ReentryProjects, m \in ReentryMilestones :
            releaseMilestoneFunds(Callee, p, m)
    \/ /\ inFlight # NoCall /\ Callee \in TokenContracts
       /\ \E t \in BOOLEAN : stakeAsReviewer(Callee, t)
    \/ \E t \in BOOLEAN : fundProjectReturn(t)
    \/ releaseMilestoneFundsReturn

SpecReentry == Init /\ [][NextReentry]_vars

\* SpecEscrow: two projects of one creator with the same funding token, both created in
\* the first block, a funder who deposits for either, and releases of the milestones of both.
EscrowPlans == {[amounts |-> <<50, 100>>, descriptions |-> 2, offsets |-> <<1, 2>>]}
EscrowProjects == {1, 2}
EscrowMilestones == {0, 1}
Releasers == {1}            \* callers of releaseMilestoneFunds

NextEscrow ==
    \/ Tick
    \/ Warp
    \/ /\ nextProjectId \in EscrowProjects
       /\ now = 1
       /\ \E s \in Creators, plan \in EscrowPlans :
            createProject(s, FundingToken, plan.amounts, plan.descriptions,
                          [i \in 1..Len(plan.offsets) |-> now + plan.offsets[i]])
    \/ \E s \in Funders, p \in EscrowProjects, a \in FundAmounts, t \in BOOLEAN :
            /\ escrow + a <= MaxEscrow
            /\ deposited[p] + a <= MaxEscrow
            /\ fundProject(s, p, a, t)
    \/ \E s \in Creators, p \in EscrowProjects, m \in EscrowMilestones,
          h \in DeliverableHashes :
            submitMilestone(s, p, m, h)
    \/ \E s \in Releasers, p \in EscrowProjects, m \in EscrowMilestones :
            releaseMilestoneFunds(s, p, m)
    \/ \E s \in Stakers, t \in BOOLEAN : stakeAsReviewer(s, t)

SpecEscrow == Init /\ [][NextEscrow]_vars

(***************************************************************************)
(* Next-state relations: one transaction of the voting contract, or one    *)
(* tick of the clock.                                                      *)
(***************************************************************************)
\* The first round in depth.  Reveals: every committed vote, and votes that
\* differ from a committed one in the proposal, the count or the nonce.
RevealArgs == CommittedVotes \cup {<<2, 1, 1>>, <<1, MAX_VOTES_PER_PROPOSAL, 1>>, <<1, 1, 2>>}

NextQV ==
    \/ Tick
    \/ /\ currentRoundId = 0
       /\ \E s \in Addresses, d \in Durations, cd \in Durations, root \in Roots :
            startVotingRound(s, d, cd, root)
    \/ \E s \in Addresses, c \in Commitments, proof \in Proofs : commitVote(s, c, proof)
    \/ \E s \in Addresses, v \in RevealArgs : revealVote(s, v[1], v[2], v[3])
    \/ \E s \in Addresses : finalizeRound(s)
    \/ \E s \in Addresses : pause(s)
    \/ \E s \in Addresses : unpause(s)

SpecQV == Init /\ [][NextQV]_vars

\* Successive rounds: up to MaxRounds rounds, the administrator and one listed
\* voter, one vote to commit to.
RoundsCallers == {Admin, 2}
RoundsRoots == {MerkleRootOf(<<2>>)}
RoundsProofs == {<<>>, <<keccakAddress(3)>>}
RoundsCommitments == {keccakVote(2, MAX_VOTES_PER_PROPOSAL, 2)}
RoundsRevealArgs == {<<2, MAX_VOTES_PER_PROPOSAL, 2>>, <<1, 1, 1>>}

NextRounds ==
    \/ Tick
    \/ /\ currentRoundId < MaxRounds
       /\ \E s \in RoundsCallers, d \in Durations, cd \in Durations, root \in RoundsRoots :
            startVotingRound(s, d, cd, root)
    \/ \E s \in RoundsCallers, c \in RoundsCommitments, proof \in RoundsProofs : commitVote(s, c, proof)
    \/ \E s \in RoundsCallers, v \in RoundsRevealArgs : revealVote(s, v[1], v[2], v[3])
    \/ \E s \in RoundsCallers : finalizeRound(s)
    \/ \E s \in RoundsCallers : pause(s)
    \/ \E s \in RoundsCallers : unpause(s)

SpecRounds == Init /\ [][NextRounds]_vars

\* Reveals of two listed voters over successive rounds: each commits to one of two votes
\* and reveals it, the administrator starts and finalizes the rounds.
RevealVoters == {2, 3}
RevealRoots == {MerkleRootOf(<<2, 3>>)}
RevealProofs == {<<keccakAddress(a)>> : a \in RevealVoters}
RevealVotes == {<<1, 5, 1>>, <<2, 3, 1>>}
\* rounds whose reveal window is the one timestamp commitEndTime = endTime
RevealDurations == {1}

NextReveal ==
    \/ Tick
    \/ /\ currentRoundId < MaxRounds
       /\ \E d \in RevealDurations, root \in RevealRoots :
            startVotingRound(Admin, d, d, root)
    \/ \E s \in RevealVoters, v \in RevealVotes, proof \in RevealProofs :
            commitVote(s, keccakVote(v[1], v[2], v[3]), proof)
    \/ \E s \in RevealVoters, v \in RevealVotes : revealVote(s, v[1], v[2], v[3])
    \/ finalizeRound(Admin)

SpecReveal == Init /\ [][NextReveal]_vars

\* The round lifecycle under fairness: the administrator starts rounds whose
\* endTime the clock can still pass, one listed voter may commit and reveal,
\* the administrator pauses, unpauses and finalizes.  The clock and the
\* administrator's finalizeRound are weakly fair.
LifeVoters == {2}
LifeRoots == {MerkleRootOf(<<2>>)}
LifeProofs == {<<>>}
\* a vote within the range and a vote one above MAX_VOTES_PER_PROPOSAL
LifeVotes == {<<1, 5, 1>>, <<1, MAX_VOTES_PER_PROPOSAL + 1, 1>>}
LifeDurations == {0, 1}

NextLife ==
    \/ Tick
    \/ /\ currentRoundId < MaxRounds
       /\ \E d \in LifeDurations, root \in LifeRoots :
            /\ now + d < MaxTime
            /\ startVotingRound(Admin, d, d, root)
    \/ \E s \in LifeVoters, v \in LifeVotes, proof \in LifeProofs :
            commitVote(s, keccakVote(v[1], v[2], v[3]), proof)
    \/ \E s \in LifeVoters, v \in LifeVotes : revealVote(s, v[1], v[2], v[3])
    \/ finalizeRound(Admin)
    \/ pause(Admin)
    \/ unpause(Admin)

SpecLife == Init /\ [][NextLife]_vars /\ WF_vars(Tick) /\ WF_vars(finalizeRound(Admin))

(***************************************************************************)
(* Properties of the voting contract.                                      *)
(***************************************************************************)
CurrentRound == votingRounds[currentRoundId]
\* the phases of section 4.2: Commit is now < commitEndTime, Reveal is
\* commitEndTime <= now < endTime
InCommitPhase == CurrentRound.startTime <= now /\ now < CurrentRound.commitEndTime
InRevealPhase == CurrentRound.commitEndTime <= now /\ now < CurrentRound.endTime
HasRevealed(r, v) == \E x \in revealedBy : x[1] = r /\ x[2] = v

\* C1: once a commitVote by voter v has succeeded in the current round, every
\* later commitVote by v in that round fails, whatever commitment it carries.
C1_SingleCommit ==
    \A v \in Addresses, c \in Commitments, proof \in Proofs :
        <<currentRoundId, v>> \in committed => commitVoteErr(v, c, proof) # "ok"

\* C2: after a successful reveal by voter v in the current round no revealVote
\* by v succeeds, and one made in the reveal phase (the contract not paused)
\* fails with AlreadyVoted; each voter has at most one successful reveal per
\* round, and a proposal's uniqueVoters counts exactly those reveals.
C2_SingleReveal ==
    /\ \A v \in Addresses, a \in RevealArgs :
          HasRevealed(currentRoundId, v) =>
              /\ revealVoteErr(v, a[1], a[2], a[3]) # "ok"
              /\ (~paused /\ InRevealPhase) => revealVoteErr(v, a[1], a[2], a[3]) = "AlreadyVoted"
    /\ \A x, y \in revealedBy : (x[1] = y[1] /\ x[2] = y[2]) => x = y
    /\ \A r \in RoundIds, p \in Proposals :
          results[r][p].uniqueVoters = Cardinality({x \in revealedBy : x[1] = r /\ x[3] = p})

C2_Witness ==
    /\ ~paused
    /\ InRevealPhase
    /\ \E x \in revealedBy :
          /\ x[1] = currentRoundId
          /\ revealVoteErr(x[2], x[3], x[4], x[5]) = "AlreadyVoted"

\* C6: a revealVote whose digest differs from the caller's stored commitment
\* never succeeds, and fails with InvalidCommitment when it gets as far as the
\* commitment check; every vote that was tallied is the one its voter's stored
\* commitment binds.
C6_RevealMatchesCommitment ==
    /\ \A v \in Addresses, a \in RevealArgs :
          keccakVote(a[1], a[2], a[3]) # votes[currentRoundId][v].commitment =>
              /\ revealVoteErr(v, a[1], a[2], a[3]) # "ok"
              /\ (~paused /\ InRevealPhase /\ ~votes[currentRoundId][v].revealed) =>
                     revealVoteErr(v, a[1], a[2], a[3]) = "InvalidCommitment"
    /\ \A x \in revealedBy :
          /\ votes[x[1]][x[2]].commitment = keccakVote(x[3], x[4], x[5])
          /\ votes[x[1]][x[2]].votesRevealed = x[4]
          /\ results[x[1]][x[3]].totalVotes >= x[4]

C6_Witness ==
    /\ revealedBy # {}
    /\ \E v \in Addresses, a \in RevealArgs :
          /\ votes[currentRoundId][v].commitment # 0
          /\ revealVoteErr(v, a[1], a[2], a[3]) = "InvalidCommitment"
    /\ \E v \in Addresses, a \in RevealArgs :
          /\ votes[currentRoundId][v].commitment = 0
          /\ revealVoteErr(v, a[1], a[2], a[3]) = "InvalidCommitment"

\* C7: a revealVote that matches the stored commitment with a voteCount of 0 or
\* above MAX_VOTES_PER_PROPOSAL never succeeds and fails with InvalidVoteCount
\* in the reveal phase; every revealed vote has 1 <= votesRevealed <= 10 and
\* votesRevealed squared <= CREDITS_PER_ROUND.
C7_VoteCountRange ==
    /\ \A v \in Addresses, a \in RevealArgs :
          (/\ keccakVote(a[1], a[2], a[3]) = votes[currentRoundId][v].commitment
           /\ (a[2] = 0 \/ a[2] > MAX_VOTES_PER_PROPOSAL)) =>
              /\ revealVoteErr(v, a[1], a[2], a[3]) # "ok"
              /\ (~paused /\ InRevealPhase) =>
                     revealVoteErr(v, a[1], a[2], a[3]) = "InvalidVoteCount"
    /\ \A r \in RoundIds, v \in Addresses :
          votes[r][v].revealed =>
              /\ 1 <= votes[r][v].votesRevealed
              /\ votes[r][v].votesRevealed <= MAX_VOTES_PER_PROPOSAL
              /\ votes[r][v].votesRevealed * votes[r][v].votesRevealed <= CREDITS_PER_ROUND

C7_Witness ==
    /\ ~paused
    /\ InRevealPhase
    /\ \E v \in Addresses, a \in RevealArgs :
          a[2] = 0 /\ revealVoteErr(v, a[1], a[2], a[3]) = "InvalidVoteCount"
    /\ \E v \in Addresses, a \in RevealArgs :
          a[2] > MAX_VOTES_PER_PROPOSAL /\ revealVoteErr(v, a[1], a[2], a[3]) = "InvalidVoteCount"

\* C8: commitVote succeeds only at now < commitEndTime and revealVote only at
\* commitEndTime <= now < endTime.
C8_PhaseWindows ==
    /\ \A v \in Addresses, c \in Commitments, proof \in Proofs :
          commitVoteErr(v, c, proof) = "ok" => now < CurrentRound.commitEndTime
    /\ \A v \in Addresses, a \in RevealArgs :
          revealVoteErr(v, a[1], a[2], a[3]) = "ok" =>
              (CurrentRound.commitEndTime <= now /\ now < CurrentRound.endTime)

C10_OneOpenRound ==
    /\ \A s \in Addresses :
          (currentRoundId # 0 /\ ~CurrentRound.finalized) => startVotingRoundErr(s) # "ok"
    /\ Len(roundLog) = currentRoundId
    /\ \A i \in 1..Len(roundLog) : roundLog[i] = i
    /\ \A r \in 1..(currentRoundId - 1) : votingRounds[r].finalized
    /\ Cardinality({r \in 1..currentRoundId : ~votingRounds[r].finalized}) <= 1

C10_Witness ==
    /\ currentRoundId >= 2
    /\ ~CurrentRound.finalized
    /\ \E s \in Addresses : startVotingRoundErr(s) = "Previous round not finalized"

(***************************************************************************)
(* Properties of the funding contract.                                     *)
(***************************************************************************)
Milestone(p, m) == projects[p].milestones[m]
ReleasesOf(p, m) == {i \in 1..Len(releaseLog) :
                        releaseLog[i].project = p /\ releaseLog[i].milestone = m}

RECURSIVE SumLog(_, _)
\* the amounts of the first n releases that belong to project p
SumLog(n, p) ==
    IF n = 0 THEN 0
    ELSE SumLog(n - 1, p) + (IF releaseLog[n].project = p THEN releaseLog[n].amount ELSE 0)

RECURSIVE SumReleased(_, _)
\* fundingAmount summed over the milestones of project p in ms whose status is Released
SumReleased(p, ms) ==
    IF ms = {} THEN 0
    ELSE LET m == CHOOSE x \in ms : TRUE
         IN  (IF Milestone(p, m).status = Released THEN Milestone(p, m).fundingAmount ELSE 0)
             + SumReleased(p, ms \ {m})

RECURSIVE SumReceived(_)
SumReceived(hs) ==
    IF hs = {} THEN 0
    ELSE LET h == CHOOSE x \in hs : TRUE IN received[h] + SumReceived(hs \ {h})

\* C3: a milestone is released at most once; once released it stays Released,
\* every further releaseMilestoneFunds for it fails whoever calls, and the
\* tokens paid out and releasedFunding are those of the single release.
C3_ReleaseOnce ==
    /\ \A p \in ProjectIds, m \in MilestoneIds : Cardinality(ReleasesOf(p, m)) <= 1
    /\ \A i \in 1..Len(releaseLog) :
          /\ Milestone(releaseLog[i].project, releaseLog[i].milestone).status = Released
          /\ \A s \in Addresses :
                releaseMilestoneFundsErr(s, releaseLog[i].project, releaseLog[i].milestone) # "ok"
    /\ \A p \in ProjectIds : projects[p].releasedFunding = SumLog(Len(releaseLog), p)
    /\ SumReceived(DOMAIN received) = SumLog(Len(releaseLog), 1) + SumLog(Len(releaseLog), 0)

\* a released milestone whose amount the escrow could pay a second time
C3_Witness ==
    \E i \in 1..Len(releaseLog) :
        /\ escrow >= releaseLog[i].amount
        /\ releaseLog[i].amount > 0
        /\ releaseMilestoneFundsErr(1, releaseLog[i].project, releaseLog[i].milestone)
               = "Cannot release funds"

\* approvals by members of the milestone's panel reach ceil(panel size * 66%)
QuorumReached(p, m) ==
    LET panel == {Milestone(p, m).assignedReviewers[i] :
                      i \in 1..Len(Milestone(p, m).assignedReviewers)}
        needed == (Len(Milestone(p, m).assignedReviewers) * APPROVAL_THRESHOLD + 99) \div 100
    IN  Cardinality({a \in Addresses : a \in panel /\ <<p, m, a>> \in approvals}) >= needed

\* C4: every Released milestone was released by a releaseMilestoneFunds call
\* made either after its panel approved it with a quorum, or while it was
\* InReview at a time later than its autoReleaseTime.
C4_ReleaseOnlyAfterReviewOrTimeout ==
    /\ \A p \in ProjectIds, m \in MilestoneIds :
          Milestone(p, m).status = Released => ReleasesOf(p, m) # {}
    /\ \A i \in 1..Len(releaseLog) :
          \/ /\ releaseLog[i].path = "approved"
             /\ QuorumReached(releaseLog[i].project, releaseLog[i].milestone)
          \/ /\ releaseLog[i].path = "auto"
             /\ releaseLog[i].late

C4_Witness ==
    \E p \in ProjectIds, m \in MilestoneIds :
        /\ Milestone(p, m).status = Released
        /\ \E i \in ReleasesOf(p, m) : releaseLog[i].path = "auto" /\ releaseLog[i].late

\* C5: releasedFunding of a project is the sum of fundingAmount over its
\* Released milestones, it never exceeds totalFunding, and it never decreases.
C5_ReleasedFundingState ==
    \A p \in ProjectIds :
        /\ projects[p].releasedFunding = SumReleased(p, MilestoneIds)
        /\ projects[p].releasedFunding <= projects[p].totalFunding

C5_ReleasedFunding ==
    /\ []C5_ReleasedFundingState
    /\ [][\A p \in ProjectIds : projects'[p].releasedFunding >= projects[p].releasedFunding]_vars

\* both milestones of a project released
C5_Witness ==
    \E p \in ProjectIds :
        /\ Cardinality({m \in MilestoneIds : Milestone(p, m).status = Released}) >= 2
        /\ projects[p].releasedFunding = projects[p].totalFunding
        /\ projects[p].releasedFunding > 0

(***************************************************************************)
(* Finalization, pause and the administrative capability.                  *)
(***************************************************************************)
RECURSIVE SumCredits(_)
\* voteCount squared, summed over a set of reveals
SumCredits(reveals) ==
    IF reveals = {} THEN 0
    ELSE LET x == CHOOSE e \in reveals : TRUE
         IN  x[4] * x[4] + SumCredits(reveals \ {x})

CreditsOf(r) == SumCredits({x \in revealedBy : x[1] = r})

\* C11: finalizeRound succeeds only at now > endTime of the current round and
\* only if that round is not finalized yet; a success sets finalized and
\* reports the round's totalCredits, which is the sum of the costs of the
\* round's reveals.
C11_FinalizeRound ==
    /\ \A s \in Addresses :
          finalizeRoundErr(s) = "ok" => (now > CurrentRound.endTime /\ ~CurrentRound.finalized)
    /\ \A i \in 1..Len(finalizeLog) :
          /\ finalizeLog[i].late
          /\ ~finalizeLog[i].again
          /\ votingRounds[finalizeLog[i].roundId].finalized
          /\ finalizeLog[i].totalCredits = votingRounds[finalizeLog[i].roundId].totalCredits
          /\ finalizeLog[i].totalCredits = CreditsOf(finalizeLog[i].roundId)
    /\ \A r \in RoundIds :
          votingRounds[r].finalized => \E i \in 1..Len(finalizeLog) : finalizeLog[i].roundId = r

\* a started round with counted votes has been finalized
C11_Witness ==
    \E i \in 1..Len(finalizeLog) :
        /\ finalizeLog[i].roundId = currentRoundId
        /\ currentRoundId >= 1
        /\ finalizeLog[i].totalCredits > 0
        /\ finalizeRoundErr(Admin) = "Already finalized"

\* C12: once a round is finalized, no step changes its record, a vote keyed by
\* it or a result keyed by it.
C12_FinalizedImmutable ==
    [][\A r \in RoundIds :
          votingRounds[r].finalized =>
              /\ votingRounds'[r] = votingRounds[r]
              /\ votes'[r] = votes[r]
              /\ results'[r] = results[r]]_vars

\* C13: while the pause flag is set, every state-mutating entry point of the
\* voting contract and of the funding contract fails.
C13_PauseBlocksAll ==
    paused =>
        /\ \A s \in Addresses : startVotingRoundErr(s) # "ok"
        /\ \A s \in Addresses, c \in Commitments, proof \in Proofs :
              commitVoteErr(s, c, proof) # "ok"
        /\ \A s \in Addresses, a \in RevealArgs :
              revealVoteErr(s, a[1], a[2], a[3]) # "ok"
        /\ \A s \in Addresses : finalizeRoundErr(s) # "ok"
        /\ \A s \in Addresses, plan \in Plans :
              createProjectErr(s, plan.amounts, plan.descriptions,
                               [i \in 1..Len(plan.offsets) |-> now + plan.offsets[i]])
                  # "ok"
        /\ \A s \in Addresses, p \in ProjectIds, a \in FundAmounts :
              fundProjectErr(s, p, a, TRUE) # "ok"
        /\ \A s \in Addresses, p \in ProjectIds, m \in MilestoneIds :
              /\ submitMilestoneErr(s, p, m) # "ok"
              /\ reviewMilestoneErr(s, p, m) # "ok"
              /\ releaseMilestoneFundsErr(s, p, m) # "ok"
        /\ \A s \in Addresses : stakeAsReviewerErr(s, TRUE) # "ok"

\* C14: startVotingRound, finalizeRound, pause and unpause fail for every caller
\* that does not hold ADMIN_ROLE; every finalization on record was made by a
\* holder of the role.
C14_AdminOnly ==
    /\ \A s \in Addresses \ adminRole :
          /\ startVotingRoundErr(s) = "AccessControl"
          /\ finalizeRoundErr(s) = "AccessControl"
          /\ pauseErr(s) = "AccessControl"
          /\ unpauseErr(s) = "AccessControl"
    /\ \A i \in 1..Len(finalizeLog) : finalizeLog[i].sender \in adminRole

\* a paused contract with an open round past its end: the administrator could
\* finalize and unpause, another caller is refused both
C14_Witness ==
    /\ paused
    /\ currentRoundId >= 1
    /\ finalizeRoundErr(Admin) = "ok"
    /\ unpauseErr(Admin) = "ok"
    /\ \E s \in Addresses \ adminRole :
          /\ finalizeRoundErr(s) = "AccessControl"
          /\ unpauseErr(s) = "AccessControl"
          /\ startVotingRoundErr(s) = "AccessControl"

(***************************************************************************)
(* Auto-release, quorum and project creation.                              *)
(***************************************************************************)
\* C15 as stated: for an InReview milestone with deadline D, a release at
\* now <= D + AUTO_RELEASE_DELAY fails and any release after it succeeds.
C15_AutoReleaseBoundary ==
    \A s \in Addresses, p \in ProjectIds, m \in MilestoneIds :
        Milestone(p, m).status = InReview =>
            IF now <= Milestone(p, m).deadline + AUTO_RELEASE_DELAY
            THEN releaseMilestoneFundsErr(s, p, m) # "ok"
            ELSE releaseMilestoneFundsErr(s, p, m) = "ok"

\* C15 amended: for an InReview milestone that createProject stored (index below
\* milestoneCount) with deadline D, a release at now <= D + AUTO_RELEASE_DELAY
\* fails with "Cannot release funds"; after it, the release succeeds exactly
\* when the contract holds at least fundingAmount of the token.  Every release
\* on record left its milestone Released and came after autoReleaseTime.
C15_AutoReleaseBoundaryFunded ==
    /\ \A s \in Addresses, p \in ProjectIds, m \in MilestoneIds :
          (Milestone(p, m).status = InReview /\ m < projects[p].milestoneCount) =>
              /\ Milestone(p, m).autoReleaseTime = Milestone(p, m).deadline + AUTO_RELEASE_DELAY
              /\ IF now <= Milestone(p, m).deadline + AUTO_RELEASE_DELAY
                 THEN releaseMilestoneFundsErr(s, p, m) = "Cannot release funds"
                 ELSE IF escrow >= Milestone(p, m).fundingAmount
                 THEN releaseMilestoneFundsErr(s, p, m) = "ok"
                 ELSE releaseMilestoneFundsErr(s, p, m) = "ERC20: transfer amount exceeds balance"
    /\ \A i \in 1..Len(releaseLog) :
          /\ releaseLog[i].late
          /\ Milestone(releaseLog[i].project, releaseLog[i].milestone).status = Released

\* one milestone auto-released, another InReview exactly at its
\* autoReleaseTime, which the escrow could pay
C15_Witness ==
    /\ \E i \in 1..Len(releaseLog) : releaseLog[i].path = "auto"
    /\ \E p \in ProjectIds, m \in MilestoneIds :
          /\ Milestone(p, m).status = InReview
          /\ m < projects[p].milestoneCount
          /\ now = Milestone(p, m).deadline + AUTO_RELEASE_DELAY
          /\ escrow >= Milestone(p, m).fundingAmount
          /\ releaseMilestoneFundsErr(projects[p].creator, p, m) = "Cannot release funds"

StoredAmounts(p) == [i \in 1..projects[p].milestoneCount |-> Milestone(p, i - 1).fundingAmount]
StoredDeadlines(p) == [i \in 1..projects[p].milestoneCount |-> Milestone(p, i - 1).deadline]

\* C17: createProject stores no project whose milestone amounts do not sum to
\* 100: the amounts of every stored project sum to 100.
C17_PercentagesSumTo100 ==
    \A p \in ProjectIds : projects[p].active => SumSeq(StoredAmounts(p)) = 100

\* plans at the ends of the allowed number of milestones: 8 and 9 milestones
EdgePlans == {[amounts |-> [i \in 1..n |-> 10], descriptions |-> n, offsets |-> [i \in 1..n |-> i]] :
                 n \in {8, 9}}

C19_IncreasingDeadlines ==
    \A p \in ProjectIds :
        projects[p].active =>
            \A i \in 1..(projects[p].milestoneCount - 1) :
                StoredDeadlines(p)[i] < StoredDeadlines(p)[i + 1]

(***************************************************************************)
(* The integer square root.                                                *)
(***************************************************************************)
C20_Returned ==
    sqrtPc = "return" =>
        /\ sqrtY * sqrtY <= sqrtX
        /\ sqrtX < (sqrtY + 1) * (sqrtY + 1)
        /\ sqrtY = _sqrt(sqrtX)

\* C20: every call of _sqrt returns, the value y it returns is the floor
\* square root of x (y*y <= x < (y+1)*(y+1)), and y never grows in the loop.
C20_FloorSqrt ==
    /\ []C20_Returned
    /\ [][sqrtPc = "loop" => sqrtY' <= sqrtY]_vars
    /\ <>(sqrtPc = "return")

\* the call for the largest argument revealVote passes has returned
C20_Witness ==
    /\ sqrtPc = "return"
    /\ sqrtX = MAX_VOTES_PER_PROPOSAL * SCALE
    /\ sqrtY * sqrtY < sqrtX

\* C21: a successful releaseMilestoneFunds pays floor(fundingAmount * platformFeeRate / 10000)
\* to the treasury and the rest to the project's creator, whoever the caller is: the escrow
\* drops by exactly fundingAmount and no other holder's balance changes.
C21_FeeSplitStep ==
    Len(releaseLog') > Len(releaseLog) =>
        LET e == releaseLog'[Len(releaseLog')]
            creator == projects[e.project].creator
            fundingAmount == projects[e.project].milestones[e.milestone].fundingAmount
            platformFee == (fundingAmount * platformFeeRate) \div 10000
            creatorAmount == fundingAmount - platformFee
        IN  /\ e.amount = fundingAmount
            /\ escrow' = escrow - fundingAmount
            /\ stakeHeld' = stakeHeld
            /\ \A h \in DOMAIN received :
                   received'[h] - received[h] =
                       (IF h = creator THEN creatorAmount ELSE 0)
                     + (IF h = Treasury THEN platformFee ELSE 0)
C21_FeeSplit == [][C21_FeeSplitStep]_vars
C21_Witness ==
    /\ Len(releaseLog) = 1
    /\ releaseLog[1].amount = 50
    /\ received[Treasury] = 1
    /\ received[projects[releaseLog[1].project].creator] = 49
    /\ escrow = 50

\* C22: submitMilestone succeeds exactly when the caller is the project's creator and the
\* milestone is Pending; a submission sets the status to InReview, submissionTime to the
\* block timestamp and stores the deliverable hash; nothing else changes a milestone's
\* submission, and no milestone returns to Pending, so a milestone is submitted at most once.
C22_SubmitGuard ==
    \A s \in Addresses, p \in ProjectIds, m \in MilestoneIds :
        submitMilestoneErr(s, p, m) = "ok" <=>
            /\ s = projects[p].creator
            /\ Milestone(p, m).status = Pending
C22_SubmitStep ==
    \A p \in ProjectIds, m \in MilestoneIds :
        LET old == projects[p].milestones[m]
            new == projects'[p].milestones[m]
        IN  /\ (old.status # Pending) => (new.status # Pending)
            /\ (old.status # Pending) =>
                   /\ new.submissionTime = old.submissionTime
                   /\ new.deliverableHash = old.deliverableHash
            /\ (\/ new.submissionTime # old.submissionTime
                \/ new.deliverableHash # old.deliverableHash
                \/ old.status = Pending /\ new.status # Pending) =>
                   /\ old.status = Pending
                   /\ new.status = InReview
                   /\ new.submissionTime = now
                   /\ new.deliverableHash \in DeliverableHashes
                   /\ projects'[p].creator = projects[p].creator
                   /\ projects[p].creator \in Addresses
C22_SubmitMilestone == []C22_SubmitGuard /\ [][C22_SubmitStep]_vars
C22_Witness ==
    \E p \in ProjectIds, m \in MilestoneIds :
        /\ Milestone(p, m).status = InReview
        /\ Milestone(p, m).submissionTime = now - 1
        /\ Milestone(p, m).deliverableHash \in DeliverableHashes
        /\ submitMilestoneErr(projects[p].creator, p, m) = "Invalid status"

OnPanel(a, p, m) ==
    \E i \in 1..Len(Milestone(p, m).assignedReviewers) :
        Milestone(p, m).assignedReviewers[i] = a

\* C23: reviewMilestone succeeds only for a caller that holds the reviewer role with an
\* active stake and is on the milestone's panel, and only while the milestone is InReview;
\* approvalCount, the recorded votes and totalReviews change only in such a call, and a
\* milestone leaves InReview for Approved only in such a call.
C23_ReviewGuard ==
    \A s \in Addresses, p \in ProjectIds, m \in MilestoneIds :
        reviewMilestoneErr(s, p, m) = "ok" =>
            /\ s \in reviewerRole
            /\ reviewerStakes[s].active
            /\ OnPanel(s, p, m)
            /\ Milestone(p, m).status = InReview
C23_ReviewStep ==
    LET Reviewed(s, p, m) ==
            /\ s \in reviewerRole
            /\ reviewerStakes[s].active
            /\ OnPanel(s, p, m)
            /\ Milestone(p, m).status = InReview
            /\ reviewerVotes'[p][m] = [reviewerVotes[p][m] EXCEPT ![s] = TRUE]
            /\ reviewerStakes'[s].totalReviews = reviewerStakes[s].totalReviews + 1
            /\ \A a \in Addresses \ {s} :
                   reviewerStakes'[a].totalReviews = reviewerStakes[a].totalReviews
        Touched(p, m) ==
            \/ reviewerVotes'[p][m] # reviewerVotes[p][m]
            \/ projects'[p].milestones[m].approvalCount # Milestone(p, m).approvalCount
            \/ /\ projects'[p].milestones[m].status = Approved
               /\ Milestone(p, m).status # Approved
    IN  /\ \A p \in ProjectIds, m \in MilestoneIds :
               Touched(p, m) => \E s \in Addresses : Reviewed(s, p, m)
        /\ (\E a \in Addresses :
                reviewerStakes'[a].totalReviews # reviewerStakes[a].totalReviews) =>
               \E s \in Addresses, p \in ProjectIds, m \in MilestoneIds : Reviewed(s, p, m)
C23_ReviewMilestone == []C23_ReviewGuard /\ [][C23_ReviewStep]_vars
C23_Witness ==
    \E p \in ProjectIds, m \in MilestoneIds :
        /\ Milestone(p, m).status = InReview
        /\ \E s \in Addresses : reviewerVotes[p][m][s] /\ reviewerStakes[s].totalReviews = 1
        /\ \E s \in Addresses :
               OnPanel(s, p, m) /\ reviewMilestoneErr(s, p, m) = "AccessControl"
        /\ \E s \in Addresses : reviewMilestoneErr(s, p, m) = "Not assigned reviewer"

ReviewersOf(p, m) == {s \in Addresses : OnPanel(s, p, m) /\ reviewerVotes[p][m][s]}

C25_RevealStep ==
    revealedBy' # revealedBy =>
        \E e \in revealedBy' \ revealedBy :
            LET r == e[1]
                s == e[2]
                p == e[3]
                v == e[4]
                old == results[r][p]
                new == results'[r][p]
                q == new.quadraticScore - old.quadraticScore
            IN  /\ revealedBy' = revealedBy \cup {e}
                /\ r = currentRoundId
                /\ ~votes[r][s].revealed
                /\ votes' = [votes EXCEPT ![r][s] =
                        [votes[r][s] EXCEPT !.revealed = TRUE, !.votesRevealed = v]]
                /\ new.totalVotes = old.totalVotes + v
                /\ new.uniqueVoters = old.uniqueVoters + 1
                /\ q >= 0 /\ q * q <= v * SCALE /\ v * SCALE < (q + 1) * (q + 1)
                /\ results' = [results EXCEPT ![r][p] = new]
                /\ new = [old EXCEPT !.totalVotes = new.totalVotes,
                                     !.uniqueVoters = new.uniqueVoters,
                                     !.quadraticScore = new.quadraticScore]
                /\ votingRounds' = [votingRounds EXCEPT ![r].totalCredits = @ + v * v]
                /\ voterReputationScore' = [voterReputationScore EXCEPT ![s] = @ + 1]
                /\ UNCHANGED <<now, adminRole, paused, currentRoundId, mfVars>>
C25_RevealFrame == [][C25_RevealStep]_vars
C25_Witness ==
    /\ currentRoundId = 2
    /\ results[1][1].totalVotes = 5
    /\ results[1][1].uniqueVoters = 1
    /\ results[1][1].quadraticScore = 22360
    /\ results[2][1].totalVotes = 10
    /\ results[2][1].uniqueVoters = 2
    /\ votingRounds[2].totalCredits = 50
    /\ voterReputationScore[2] = 2

\* C26: for every started round startTime <= commitEndTime <= endTime, so that the reveal
\* window [commitEndTime, endTime] is never empty or inverted.
C26_OrderedWindows ==
    \A r \in RoundIds :
        (1 <= r /\ r <= currentRoundId) =>
            /\ votingRounds[r].startTime <= votingRounds[r].commitEndTime
            /\ votingRounds[r].commitEndTime <= votingRounds[r].endTime

\* C27: every submitted milestone has a panel of at least MIN_REVIEWERS members, each of
\* them a holder of the reviewer role with an active stake.
C27_PanelOfReviewers ==
    \A p \in ProjectIds, m \in MilestoneIds :
        Milestone(p, m).status # Pending =>
            LET panel == Milestone(p, m).assignedReviewers
            IN  /\ Len(panel) >= MIN_REVIEWERS
                /\ \A i \in 1..Len(panel) :
                       /\ panel[i] \in reviewerRole
                       /\ reviewerStakes[panel[i]].active

\* position of a status in the enum MilestoneStatus
StatusRank(status) ==
    CASE status = Pending -> 0
      [] status = InReview -> 1
      [] status = Approved -> 2
      [] status = Rejected -> 3
      [] status = Disputed -> 4
      [] status = Released -> 5

\* C28: a milestone's status only moves forward along Pending -> InReview -> Approved ->
\* Released: no step lowers it, Released is never left, Pending is left only for InReview,
\* Approved is reached only from InReview, and Released only from Approved or, on the
\* auto-release path that passes through Approved within the call, from InReview.
C28_StatusStep ==
    \A p \in ProjectIds, m \in MilestoneIds :
        LET old == projects[p].milestones[m].status
            new == projects'[p].milestones[m].status
        IN  /\ StatusRank(old) <= StatusRank(new)
            /\ old = Released => new = Released
            /\ (old = Pending /\ new # Pending) => new = InReview
            /\ (new = Approved /\ old # Approved) => old = InReview
            /\ (new = Released /\ old # Released) =>
                   /\ old \in {InReview, Approved}
                   /\ old = InReview =>
                          /\ projects[p].milestones[m].autoReleaseEnabled
                          /\ now > projects[p].milestones[m].autoReleaseTime
C28_StatusForward == [][C28_StatusStep]_vars
C28_Witness ==
    /\ Len(releaseLog) = 2
    /\ releaseLog[1].path = "approved"
    /\ releaseLog[2].path = "auto"
    /\ \A i \in 1..2 : Milestone(releaseLog[i].project, releaseLog[i].milestone).status = Released
    /\ Milestone(releaseLog[2].project, releaseLog[2].milestone).assignedReviewers
           = <<ZeroAddress, ZeroAddress>>

\* C29: while a call of the funding contract is suspended in a token contract, no
\* state-mutating function of the funding contract called by that token contract succeeds.
C29_NoReentry ==
    (inFlight # NoCall /\ Callee \in TokenContracts) =>
        /\ \A plan \in ReentryPlans :
               createProjectErr(Callee, plan.amounts, plan.descriptions,
                                [i \in 1..Len(plan.offsets) |-> now + plan.offsets[i]]) # "ok"
        /\ \A p \in ReentryProjects, a \in FundAmounts :
               fundProjectErr(Callee, p, a, TRUE) # "ok"
        /\ \A p \in ReentryProjects, m \in ReentryMilestones :
               /\ releaseMilestoneFundsErr(Callee, p, m) # "ok"
               /\ reviewMilestoneErr(Callee, p, m) # "ok"
               /\ submitMilestoneErr(Callee, p, m) # "ok"
        /\ stakeAsReviewerErr(Callee, TRUE) # "ok"

\* C30: a releaseMilestoneFunds that fails in its token transfer, after it has set the
\* status to Released and added the amount to releasedFunding, leaves the milestone's
\* status, releasedFunding, the whole of the contract's storage and every balance as they
\* were before the call, and the milestone is still releasable on the same path.
C30_FailedReleaseStep ==
    (/\ inFlight.op = "releaseMilestoneFunds"
     /\ inFlight' = NoCall
     /\ releaseLog' = inFlight.saved.releaseLog) =>
        LET p == inFlight.project
            m == inFlight.milestone
            before == inFlight.saved
        IN  /\ projects[p].milestones[m].status = Released
            /\ projects'[p].milestones[m].status = before.projects[p].milestones[m].status
            /\ projects'[p].milestones[m].status \in {InReview, Approved}
            /\ projects'[p].releasedFunding = before.projects[p].releasedFunding
            /\ projects' = before.projects
            /\ escrow' = before.escrow
            /\ received' = before.received
            /\ stakeHeld' = before.stakeHeld
            /\ reviewerStakes' = before.reviewerStakes
            /\ reviewerVotes' = before.reviewerVotes
            /\ _status' = NOT_ENTERED
            /\ releasePath(projects'[p].milestones[m]) = inFlight.path
            /\ inFlight.path # "none"
C30_FailedRelease == [][C30_FailedReleaseStep]_vars
C30_Witness ==
    \E p \in ReentryProjects, m \in ReentryMilestones :
        /\ <<"releaseMilestoneFunds", p, m>> \in reverted
        /\ Milestone(p, m).status = Released
        /\ \E i \in 1..Len(releaseLog) :
               releaseLog[i].project = p /\ releaseLog[i].milestone = m
        /\ projects[p].releasedFunding = Milestone(p, m).fundingAmount

RECURSIVE SumOf(_, _)
\* the sum of f[x] over the elements x of the finite set S
SumOf(f, S) ==
    IF S = {} THEN 0
    ELSE LET x == CHOOSE e \in S : TRUE
         IN  f[x] + SumOf(f, S \ {x})

\* the voters whose vote in round r is marked revealed
RevealedVoters(r) == {a \in Addresses : votes[r][a].revealed}

\* C31: in every round, totalCredits is the sum of votesRevealed squared over the revealed
\* votes, each proposal's totalVotes is the sum of the vote counts revealed for it, and the
\* proposals' uniqueVoters add up to the number of revealed voters, each of whom revealed
\* for exactly one proposal.
C31_RoundAccounting ==
    \A r \in RoundIds :
        /\ votingRounds[r].totalCredits =
               SumOf([a \in Addresses |-> votes[r][a].votesRevealed * votes[r][a].votesRevealed],
                     RevealedVoters(r))
        /\ \A a \in RevealedVoters(r) :
               /\ Cardinality({e \in revealedBy : e[1] = r /\ e[2] = a}) = 1
               /\ \A e \in revealedBy :
                      (e[1] = r /\ e[2] = a) => e[4] = votes[r][a].votesRevealed
        /\ \A p \in Proposals :
               /\ results[r][p].totalVotes =
                      SumOf([a \in Addresses |-> votes[r][a].votesRevealed],
                            {a \in RevealedVoters(r) :
                                 \E e \in revealedBy : e[1] = r /\ e[2] = a /\ e[3] = p})
               /\ results[r][p].uniqueVoters =
                      Cardinality({a \in RevealedVoters(r) :
                                       \E e \in revealedBy : e[1] = r /\ e[2] = a /\ e[3] = p})
        /\ SumOf([p \in Proposals |-> results[r][p].uniqueVoters], Proposals)
               = Cardinality(RevealedVoters(r))
C31_Witness ==
    \E r \in RoundIds :
        /\ Cardinality(RevealedVoters(r)) = 2
        /\ votingRounds[r].totalCredits = 34
        /\ \A p \in Proposals : results[r][p].uniqueVoters = 1

\* C32: a caller whose stake is active cannot stake again and holds the reviewer role with
\* at least REVIEWER_STAKE_REQUIRED staked; a stake, once active, stays active, its amount
\* never drops and its counters are never reset; a stake that becomes active starts with
\* the required amount and both counters 0, and the contract holds the staked tokens.
C32_ActiveStake ==
    \A s \in Addresses :
        reviewerStakes[s].active =>
            /\ \A t \in BOOLEAN : stakeAsReviewerErr(s, t) = "Already active reviewer"
            /\ reviewerStakes[s].stakedAmount >= REVIEWER_STAKE_REQUIRED
            /\ s \in reviewerRole
C32_StakeStep ==
    \A s \in Addresses :
        /\ reviewerStakes[s].active =>
               /\ reviewerStakes'[s].active
               /\ reviewerStakes'[s].stakedAmount >= reviewerStakes[s].stakedAmount
               /\ reviewerStakes'[s].totalReviews >= reviewerStakes[s].totalReviews
               /\ reviewerStakes'[s].successfulReviews >= reviewerStakes[s].successfulReviews
        /\ (~reviewerStakes[s].active /\ reviewerStakes'[s].active) =>
               /\ reviewerStakes'[s] =
                      [stakedAmount |-> REVIEWER_STAKE_REQUIRED, successfulReviews |-> 0,
                       totalReviews |-> 0, active |-> TRUE]
               /\ reviewerRole' = reviewerRole \cup {s}
               /\ stakeHeld' = stakeHeld + REVIEWER_STAKE_REQUIRED
        /\ (~reviewerStakes[s].active /\ ~reviewerStakes'[s].active) =>
               reviewerStakes'[s] = reviewerStakes[s]
C32_StakeOnce == []C32_ActiveStake /\ [][C32_StakeStep]_vars
C32_Witness ==
    \E s \in Stakers :
        /\ reviewerStakes[s].active
        /\ reviewerStakes[s].totalReviews = 1
        /\ stakeAsReviewerErr(s, TRUE) = "Already active reviewer"
        /\ stakeHeld = 3 * REVIEWER_STAKE_REQUIRED

\* C33: for every project, the amount paid out by releaseMilestoneFunds for its
\* milestones never exceeds the amount deposited for it through fundProject.
C33_EscrowIsolation ==
    \A p \in ProjectIds : SumLog(Len(releaseLog), p) <= deposited[p]

\* C34: within a round no commitVote succeeds once a revealVote of that round has
\* succeeded.
C34_NoCommitAfterReveal ==
    (\E e \in revealedBy : e[1] = currentRoundId) =>
        \A s \in RevealVoters, v \in RevealVotes, proof \in RevealProofs :
            commitVoteErr(s, keccakVote(v[1], v[2], v[3]), proof) # "ok"

\* C35: every successful revealVote by a voter in a round follows a successful commitVote
\* by that voter in that round, to the revealed vote; a voter with no commitment in the
\* current round cannot reveal, whatever the voter committed to in an earlier round.
C35_RevealAfterCommit ==
    /\ \A e \in revealedBy :
           /\ <<e[1], e[2]>> \in committed
           /\ votes[e[1]][e[2]].commitment = keccakVote(e[3], e[4], e[5])
    /\ \A s \in Addresses :
           <<currentRoundId, s>> \notin committed =>
               /\ votes[currentRoundId][s].commitment = 0
               /\ \A p \in Proposals, v \in VoteCounts, n \in Nonces :
                      revealVoteErr(s, p, v, n) # "ok"
C35_Witness ==
    \E s \in RevealVoters, v \in RevealVotes :
        /\ currentRoundId = 2
        /\ votes[1][s].commitment = keccakVote(v[1], v[2], v[3])
        /\ ~votes[1][s].revealed
        /\ <<2, s>> \notin committed
        /\ revealVoteErr(s, v[1], v[2], v[3]) = "InvalidCommitment"
        /\ \E e \in revealedBy : e[1] = 2 /\ e[2] # s

\* C36: finalizeRound never marks as finalized, and never reports in RoundFinalized, a
\* round id that startVotingRound has not created.
C36_FinalizeStartedRounds ==
    /\ \A r \in RoundIds :
           votingRounds[r].finalized => (1 <= r /\ r <= currentRoundId)
    /\ \A i \in 1..Len(finalizeLog) :
           \E j \in 1..Len(roundLog) : roundLog[j] = finalizeLog[i].roundId

\* C37: a milestone index at or above the project's milestoneCount, and any index of a
\* project that was never created, has no submission, review or release: its record
\* stays the empty one and no release is logged for it.
C37_ExistingMilestonesOnly ==
    /\ \A p \in ProjectIds, m \in MilestoneIds :
           m >= projects[p].milestoneCount => Milestone(p, m) = EmptyMilestone
    /\ \A i \in 1..Len(releaseLog) :
           releaseLog[i].milestone < projects[releaseLog[i].project].milestoneCount

\* C38: for every milestone that is InReview, once the clock has passed its
\* autoReleaseTime and the escrow holds its fundingAmount, releaseMilestoneFunds succeeds
\* for any caller, so that no milestone stays InReview forever.
C38_NeverStuckInReview ==
    \A p \in ProjectIds, m \in MilestoneIds :
        (/\ Milestone(p, m).status = InReview
         /\ now > Milestone(p, m).autoReleaseTime
         /\ escrow >= Milestone(p, m).fundingAmount) =>
            \A s \in Addresses : releaseMilestoneFundsErr(s, p, m) = "ok"

\* C39: the round lifecycle never deadlocks.  For a started round the clock has
\* passed the endTime of, finalizeRound by the administrator succeeds whether or
\* not anybody committed or revealed and whether or not the contract is paused;
\* once the round is finalized startVotingRound by the administrator succeeds;
\* and with a fair clock and a fair administrator
\* every started round is eventually finalized.
C39_CanFinalize ==
    (/\ currentRoundId >= 1
     /\ now > CurrentRound.endTime
     /\ ~CurrentRound.finalized) => finalizeRoundErr(Admin) = "ok"
C39_CanStartNext ==
    CurrentRound.finalized => startVotingRoundErr(Admin) = "ok"
C39_NoDeadlock ==
    /\ [](C39_CanFinalize /\ C39_CanStartNext)
    /\ \A r \in 1..MaxRounds : [](currentRoundId = r => <>votingRounds[r].finalized)
\* both rounds finalized while paused, the first with a revealed vote, the
\* second without any commitment
C39_Witness ==
    /\ currentRoundId = 2
    /\ votingRounds[1].finalized /\ votingRounds[1].totalCredits > 0
    /\ votingRounds[2].finalized /\ votingRounds[2].totalCredits = 0
    /\ ~(\E x \in committed : x[1] = 2)
    /\ paused

\* C40: revealVote evaluates its checks in the order phase, already revealed,
\* commitment match, vote-count range, credit budget: the first check that fails
\* gives the error.  No call of revealVote ends with InsufficientCredits, since a
\* voteCount within 1..MAX_VOTES_PER_PROPOSAL costs at most CREDITS_PER_ROUND.
C40_CheckOrder ==
    ~paused =>
        \A s \in Addresses, p \in Proposals, v \in VoteCounts, n \in Nonces :
            LET err == revealVoteErr(s, p, v, n)
                vote == votes[currentRoundId][s]
                phase == now < CurrentRound.commitEndTime \/ now > CurrentRound.endTime
                mismatch == keccakVote(p, v, n) # vote.commitment
                range == v = 0 \/ v > MAX_VOTES_PER_PROPOSAL
            IN  /\ phase => err = "InvalidVotingPhase"
                /\ (~phase /\ vote.revealed) => err = "AlreadyVoted"
                /\ (~phase /\ ~vote.revealed /\ mismatch) => err = "InvalidCommitment"
                /\ (~phase /\ ~vote.revealed /\ ~mismatch /\ range) => err = "InvalidVoteCount"
                /\ (~phase /\ ~vote.revealed /\ ~mismatch /\ ~range) => err = "ok"
C40_NeverInsufficientCredits ==
    /\ C40_CheckOrder
    /\ \A s \in Addresses, p \in Proposals, v \in VoteCounts, n \in Nonces :
            revealVoteErr(s, p, v, n) # "InsufficientCredits"
    /\ \A v \in 1..MAX_VOTES_PER_PROPOSAL : v * v <= CREDITS_PER_ROUND
\* in the reveal window a voter committed to a vote of MAX_VOTES_PER_PROPOSAL + 1,
\* whose cost exceeds the budget, reveals it and fails on the range
C40_Witness ==
    /\ ~paused
    /\ currentRoundId >= 1
    /\ votes[currentRoundId][2].commitment = keccakVote(1, MAX_VOTES_PER_PROPOSAL + 1, 1)
    /\ (MAX_VOTES_PER_PROPOSAL + 1) * (MAX_VOTES_PER_PROPOSAL + 1) > CREDITS_PER_ROUND
    /\ revealVoteErr(2, 1, MAX_VOTES_PER_PROPOSAL + 1, 1) = "InvalidVoteCount"
    /\ revealVoteErr(2, 1, 5, 1) = "InvalidCommitment"

====
